---- MODULE Spec2Model ----
(***************************************************************************)
(* A model of the request handlers of the backend-development repository:  *)
(* the bookstore CRUD controllers, the JWT auth / admin middlewares, the   *)
(* image upload and delete controllers and the register / change-password  *)
(* controllers.  Each handler is one action; every database or SDK call it *)
(* awaits either returns or throws, chosen nondeterministically.           *)
(***************************************************************************)
EXTENDS Integers, Sequences, FiniteSets, TLC

VARIABLES
    books,        \* the Book collection
    nextBookId,   \* the _id the next created book gets
    uploads,      \* the number of files multer wrote to uploads/
    cloud,        \* the assets held by Cloudinary
    images,       \* the Image collection
    nextImageId,  \* the _id the next saved image gets
    nextPublicId, \* the public_id Cloudinary gives the next upload
    users,        \* the User collection
    nextUserId,   \* the _id the next saved user gets
    connected,    \* the chat clients whose socket is connected
    inflight,     \* per chat client, the chatMessage events on their way to the server
    received,     \* the chatMessage events the server received, in order
    emitted,      \* the chatMessage events the server emitted, in order
    limiter,      \* the options the rate limiter was created with
    hits,         \* the rate limiter's store: per IP, the requests counted in its window
    reached,      \* per IP, the requests of its window that reached the route handler
    clock,        \* the time since the server started
    products,     \* the in-memory products array of the GraphQL server
    pending,      \* per registerUser request in progress, the await it stands at
    last          \* the request handled last and what was answered

bookVars == <<books, nextBookId>>

imageVars == <<uploads, cloud, images, nextImageId, nextPublicId>>

userVars == <<users, nextUserId>>

chatVars == <<connected, inflight, received, emitted>>

limiterVars == <<limiter, hits, reached, clock>>

productVars == <<products>>

\* the state of the services the REST handlers do not touch
otherVars == <<chatVars, limiterVars, productVars, pending>>

vars == <<books, nextBookId, uploads, cloud, images, nextImageId, nextPublicId,
          users, nextUserId, connected, inflight, received, emitted, limiter, hits,
          reached, clock,
          products, pending, last>>

----------------------------------------------------------------------------
(* Bounds *)

MaxBooks == 2

MaxUsers == 2

MaxUploads == 2

MaxClients == 2

MaxIps == 2

----------------------------------------------------------------------------
(* Values shared by all handlers *)

\* a field the request (or a document) does not carry: JavaScript undefined
Undef == -1

\* the claims of a token, or req.userInfo; role "unset" marks a req.userInfo
\* that no middleware has assigned
NoInfo == [userId |-> Undef, role |-> "unset"]

\* one space-separated piece of an Authorization header
Word(kind, payload, key, expired) ==
    [kind |-> kind, payload |-> payload, key |-> key, expired |-> expired]

UndefinedWord == Word("undefined", NoInfo, "none", FALSE)

EmptyWord == Word("empty", NoInfo, "none", FALSE)

Bearer == Word("scheme", NoInfo, "none", FALSE)

Garbage == Word("garbage", NoInfo, "none", FALSE)

NoHeader == [present |-> FALSE, parts |-> <<>>]

\* no multipart file part in the request, or no req.file
NoFile == [field |-> "none", mimetype |-> "none", big |-> FALSE]

\* a response without a JSON body the model looks at
NoJson == [success |-> FALSE]

\* a request body without the fields the auth controllers read
NoBody ==
    [username |-> Undef, email |-> Undef, password |-> Undef, role |-> "undefined",
     oldPassword |-> Undef, newPassword |-> Undef]

\* A query-string value read as a number: absent, or a string that starts with
\* an integer (hasInt, int) and may go on with other characters (junk)
Absent == [present |-> FALSE, hasInt |-> FALSE, int |-> 0, junk |-> FALSE]

NotANumber == [present |-> TRUE, hasInt |-> FALSE, int |-> 0, junk |-> TRUE]

Digits(n, junk) == [present |-> TRUE, hasInt |-> TRUE, int |-> n, junk |-> junk]

\* req.query of a request without a query string
NoQuery ==
    [page |-> Absent, limit |-> Absent, sortBy |-> "undefined",
     sortOrder |-> "undefined"]

\* The Origin header of a request: absent, or the string
\* scheme://host[:port][/], in upper case when upper; the empty string has no
\* scheme and no host
NoOrigin ==
    [present |-> FALSE, scheme |-> "", host |-> "", port |-> Undef,
     slash |-> FALSE, upper |-> FALSE]

EmptyOrigin == [NoOrigin EXCEPT !.present = TRUE]

Origin(scheme, host, port) ==
    [present |-> TRUE, scheme |-> scheme, host |-> host, port |-> port,
     slash |-> FALSE, upper |-> FALSE]

\* How a route handler ended: it returns, throws before its first await
\* (throws) or its promise rejects (rejects), and the error it ended with:
\* its class, message and statusCode property
NoError == [mode |-> "returns", class |-> "none", message |-> "", statusCode |-> Undef]

\* the record of the request handled last: the operation, the id it named,
\* its Authorization header, file part, body, query and Origin header, how
\* its route handler ended, the calls to the database or an SDK its route
\* handler issued in order, the awaited call that
\* throws when the request reaches it ("none" if none does), the statuses of
\* the responses it was sent, the handlers that ran for it in order, whether
\* the last of them called next(), req.userInfo and req.file as the handlers
\* left them, the req.userInfo the route handler saw, and the JSON body of
\* the response
NoRequest ==
    [op |-> "none", id |-> Undef, header |-> NoHeader, file |-> NoFile,
     body |-> NoBody, query |-> NoQuery, origin |-> NoOrigin, error |-> NoError,
     calls |-> <<>>, fails |-> "none", res |-> <<>>, trace |-> <<>>, next |-> FALSE,
     userInfo |-> NoInfo, reqFile |-> NoFile, seen |-> NoInfo, json |-> NoJson,
     version |-> <<>>, path |-> <<>>, accept |-> NoHeader, contentType |-> <<>>]

Request(op, id, res, trace) ==
    [NoRequest EXCEPT !.op = op, !.id = id, !.res = res, !.trace = trace]

\* the position of a handler in the order the handlers ran, 0 if it did not run
Pos(trace, name) ==
    IF \E i \in 1..Len(trace) : trace[i] = name
    THEN CHOOSE i \in 1..Len(trace) : trace[i] = name
    ELSE 0

Ran(trace, name) == Pos(trace, name) > 0

\* the result of an awaited call: it threw, or it returned a value
Threw == [threw |-> TRUE, value |-> Undef]

Returned(v) == [threw |-> FALSE, value |-> v]

----------------------------------------------------------------------------
(* Bookstore API: models/Book.js, controllers/book-controller.js *)

MaxTitleLength == 100

MinYear == 1000

CurrentYear == 2026

\* a malformed :id, which Mongoose cannot cast to an ObjectId
MalformedId == 0

BookIds == 1..MaxBooks

\* titles are modelled by their length after trimming
Titles == {Undef, MaxTitleLength, MaxTitleLength + 1}

Authors == {Undef, 1}

Years == {Undef, MinYear - 1, CurrentYear, CurrentYear + 1}

BookBodies == [title : Titles, author : Authors, year : Years]

\* bookSchema: required title of at most 100 characters, required author,
\* required year between 1000 and the year the schema was built in
bookSchemaValid(b) ==
    /\ b.title # Undef /\ b.title <= MaxTitleLength
    /\ b.author # Undef
    /\ b.year # Undef /\ b.year >= MinYear /\ b.year <= CurrentYear

BookWithId(id) == {b \in books : b.id = id}

\* Book.find(): all documents, or a driver error
Book_find(dbOk) == IF dbOk THEN Returned(books) ELSE Threw

\* Book.findById(id): CastError on a malformed id, else the document or null
Book_findById(id, dbOk) ==
    IF ~dbOk \/ id = MalformedId THEN Threw
    ELSE IF BookWithId(id) = {} THEN Returned({})
    ELSE Returned(BookWithId(id))

\* Book.create(body): validates against bookSchema, then inserts with a new _id
Book_create(body, dbOk) ==
    IF ~dbOk \/ ~bookSchemaValid(body) THEN Threw
    ELSE Returned({[id |-> nextBookId, title |-> body.title,
                    author |-> body.author, year |-> body.year]})

\* the fields of the update that are present replace those of the document
ApplyUpdate(b, body) ==
    [id |-> b.id,
     title |-> IF body.title = Undef THEN b.title ELSE body.title,
     author |-> IF body.author = Undef THEN b.author ELSE body.author,
     year |-> IF body.year = Undef THEN b.year ELSE body.year]

\* Book.findByIdAndUpdate(id, body, {new: true}): no runValidators option, so
\* the schema validators do not run; returns the updated document or null
Book_findByIdAndUpdate(id, body, dbOk) ==
    IF ~dbOk \/ id = MalformedId THEN Threw
    ELSE Returned({ApplyUpdate(b, body) : b \in BookWithId(id)})

\* Book.findByIdAndDelete(id): returns the deleted document or null
Book_findByIdAndDelete(id, dbOk) ==
    IF ~dbOk \/ id = MalformedId THEN Threw
    ELSE Returned(BookWithId(id))

\* Each controller below yields the statuses it sends, in order, the success
\* flag of the JSON body sent last, and the collection it leaves.  A document or null is a set of at most one element.

getAllBooks(dbOk) ==
    LET getAllBooksData == Book_find(dbOk) IN
    [res |-> IF getAllBooksData.threw THEN <<500>>
             ELSE IF Cardinality(getAllBooksData.value) > 0 THEN <<200>>
             ELSE <<404>>,
     success |-> ~getAllBooksData.threw /\ Cardinality(getAllBooksData.value) > 0,
     books |-> books]

\* getSingleBookById without the return in front of the 404 response
getSingleBookById_NoReturn(bookId, dbOk) ==
    LET bookDetailsById == Book_findById(bookId, dbOk) IN
    [res |-> IF bookDetailsById.threw THEN <<500>>
             ELSE IF bookDetailsById.value = {} THEN <<404, 200>>
             ELSE <<200>>,
     success |-> ~bookDetailsById.threw,
     books |-> books]

getSingleBookById(bookId, dbOk) ==
    LET bookDetailsById == Book_findById(bookId, dbOk) IN
    [res |-> IF bookDetailsById.threw THEN <<500>>
             ELSE IF bookDetailsById.value = {} THEN <<404>>
             ELSE <<200>>,
     success |-> ~bookDetailsById.threw /\ bookDetailsById.value # {},
     books |-> books]

addNewBook(newBookFromData, dbOk) ==
    LET newlyCreatedBook == Book_create(newBookFromData, dbOk) IN
    IF newlyCreatedBook.threw THEN [res |-> <<500>>, success |-> FALSE, books |-> books]
    ELSE [res |-> IF newlyCreatedBook.value # {} THEN <<201>> ELSE <<>>,
          success |-> newlyCreatedBook.value # {},
          books |-> books \cup newlyCreatedBook.value]

updateSingleBook(bookId, updateBookFromData, dbOk) ==
    LET updatedBook == Book_findByIdAndUpdate(bookId, updateBookFromData, dbOk) IN
    IF updatedBook.threw THEN [res |-> <<500>>, success |-> FALSE, books |-> books]
    ELSE IF updatedBook.value = {}
    THEN [res |-> <<404>>, success |-> FALSE, books |-> books]
    ELSE [res |-> <<200>>, success |-> TRUE,
          books |-> (books \ BookWithId(bookId)) \cup updatedBook.value]

\* deleteSingleBook without the check of what findByIdAndDelete returned
deleteSingleBook_NoNullCheck(bookId, dbOk) ==
    LET deletedBook == Book_findByIdAndDelete(bookId, dbOk) IN
    IF deletedBook.threw THEN [res |-> <<500>>, success |-> FALSE, books |-> books]
    ELSE [res |-> <<200>>, success |-> TRUE, books |-> books \ deletedBook.value]

deleteSingleBook(bookId, dbOk) ==
    LET deletedBook == Book_findByIdAndDelete(bookId, dbOk) IN
    IF deletedBook.threw THEN [res |-> <<500>>, success |-> FALSE, books |-> books]
    ELSE IF deletedBook.value = {}
    THEN [res |-> <<404>>, success |-> FALSE, books |-> books]
    ELSE [res |-> <<200>>, success |-> TRUE, books |-> books \ deletedBook.value]

RequestIds == BookIds \cup {MalformedId}

GetAllBooks ==
    \E dbOk \in BOOLEAN :
        LET r == getAllBooks(dbOk) IN
        /\ last' = [Request("getAllBooks", Undef, r.res, <<"getAllBooks">>)
                        EXCEPT !.json = [success |-> r.success],
                               !.fails = IF dbOk THEN "none" ELSE "database"]
        /\ books' = r.books
        /\ UNCHANGED <<nextBookId, imageVars, userVars, otherVars>>

GetSingleBookById ==
    \E id \in RequestIds, dbOk \in BOOLEAN :
        LET r == getSingleBookById(id, dbOk) IN
        /\ last' = [Request("getSingleBookById", id, r.res, <<"getSingleBookById">>)
                        EXCEPT !.json = [success |-> r.success],
                               !.fails = IF dbOk THEN "none" ELSE "database"]
        /\ books' = r.books
        /\ UNCHANGED <<nextBookId, imageVars, userVars, otherVars>>

AddNewBook ==
    \E body \in BookBodies, dbOk \in BOOLEAN :
        LET r == addNewBook(body, dbOk) IN
        /\ nextBookId <= MaxBooks
        /\ last' = [Request("addNewBook", Undef, r.res, <<"addNewBook">>)
                        EXCEPT !.json = [success |-> r.success],
                               !.fails = IF dbOk THEN "none" ELSE "database"]
        /\ books' = r.books
        /\ nextBookId' = IF r.books # books THEN nextBookId + 1 ELSE nextBookId
        /\ UNCHANGED <<imageVars, userVars, otherVars>>

UpdateSingleBook ==
    \E id \in RequestIds, body \in BookBodies, dbOk \in BOOLEAN :
        LET r == updateSingleBook(id, body, dbOk) IN
        /\ last' = [Request("updateSingleBook", id, r.res, <<"updateSingleBook">>)
                        EXCEPT !.json = [success |-> r.success],
                               !.fails = IF dbOk THEN "none" ELSE "database"]
        /\ books' = r.books
        /\ UNCHANGED <<nextBookId, imageVars, userVars, otherVars>>

DeleteSingleBook ==
    \E id \in RequestIds, dbOk \in BOOLEAN :
        LET r == deleteSingleBook(id, dbOk) IN
        /\ last' = [Request("deleteSingleBook", id, r.res, <<"deleteSingleBook">>)
                        EXCEPT !.json = [success |-> r.success],
                               !.fails = IF dbOk THEN "none" ELSE "database"]
        /\ books' = r.books
        /\ UNCHANGED <<nextBookId, imageVars, userVars, otherVars>>

EmptyBooks == books = {} /\ nextBookId = 1

EmptyImages ==
    /\ uploads = 0
    /\ cloud = {}
    /\ images = {}
    /\ nextImageId = 1
    /\ nextPublicId = 1

EmptyUsers == users = {} /\ nextUserId = 1

MaxRequests == 2

\* the registerUser requests that can be in progress at once
RegisterRequests == 1..MaxRequests

\* a registerUser request that has not arrived
Idle == [pc |-> "idle", body |-> NoBody, hashedPassword |-> Undef]

NoPending == pending = [r \in RegisterRequests |-> Idle]

ChatClients == 1..MaxClients

EmptyChat ==
    /\ connected = {}
    /\ inflight = [c \in ChatClients |-> <<>>]
    /\ received = <<>>
    /\ emitted = <<>>

Ips == 1..MaxIps

\* rateLimit({ max: maxRequests, windowMs: time, message: ... }); store tells
\* whether the memory store keeps one window per key, opened by the key's
\* first request, or windows shared by all keys, opened with the limiter
createBasicRateLimiter(maxRequests, time, store) ==
    [max |-> maxRequests, windowMs |-> time, store |-> store,
     message |-> [success |-> FALSE,
                  error |-> "Too many requests. Please try again later."]]

\* the store of a limiter that has counted no request
NoHits ==
    /\ hits = [ip \in Ips |-> [totalHits |-> 0, resetTime |-> 0]]
    /\ reached = [ip \in Ips |-> 0]
    /\ clock = 0

\* app.use(createBasicRateLimiter(10, 15*60*1000))
EmptyLimiter ==
    /\ limiter = createBasicRateLimiter(10, 15 * 60 * 1000, "perKey")
    /\ NoHits

\* data/products.js: the array the resolvers start from
SeedProducts ==
    <<[id |-> 1, title |-> "Wireless Headphones", category |-> "Electronics",
       price |-> 2999, inStock |-> TRUE],
      [id |-> 2, title |-> "Gaming Mouse", category |-> "Accessories",
       price |-> 1499, inStock |-> TRUE]>>

ProductsAtStart == products = SeedProducts

EmptyOthers == EmptyChat /\ EmptyLimiter /\ ProductsAtStart /\ NoPending

InitBooks ==
    /\ EmptyBooks
    /\ EmptyImages
    /\ EmptyUsers
    /\ EmptyOthers
    /\ last = NoRequest

NextBooks ==
    \/ GetAllBooks
    \/ GetSingleBookById
    \/ AddNewBook
    \/ UpdateSingleBook
    \/ DeleteSingleBook

SpecBooks == InitBooks /\ [][NextBooks]_vars

----------------------------------------------------------------------------
(* C1: every request to one of the five bookstore endpoints is answered    *)
(* with exactly one response, whose status is 200, 201, 404 or 500.        *)

BookOps == {"getAllBooks", "getSingleBookById", "addNewBook",
            "updateSingleBook", "deleteSingleBook"}

C1_ExactlyOneResponse ==
    last.op \in BookOps =>
        /\ Len(last.res) = 1
        /\ last.res[1] \in {200, 201, 404, 500}

\* a lookup of an id no book has, answered 404, after a book was added
C1_Witness ==
    /\ last.op = "getSingleBookById"
    /\ last.res = <<404>>
    /\ books # {}

----------------------------------------------------------------------------
(* JWT authentication and role middlewares: auth-middleware.js,            *)
(* admin-middleware.js, and the routes they guard                          *)

\* process.env.JWT_SECRET_KEY, and a key the server does not hold
JWT_SECRET_KEY == "secret"

Keys == {JWT_SECRET_KEY, "forged"}

UserIds == 1..MaxUsers

Roles == {"admin", "user", "undefined"}

\* the payload signed into a token: { userId, username, role }
Payloads == [userId : UserIds \cup {Undef}, role : Roles]

Jwts == {Word("jwt", p, k, e) : p \in Payloads, k \in Keys, e \in BOOLEAN}

\* authHeader.split(' ') of the headers a client may send: one piece (a bare
\* scheme, an empty header, a bare token) or a scheme followed by a piece
HeaderParts ==
    {<<w>> : w \in {Bearer, EmptyWord} \cup Jwts}
        \cup {<<Bearer, w>> : w \in {EmptyWord, Garbage} \cup Jwts}

Headers == {NoHeader} \cup {[present |-> TRUE, parts |-> p] : p \in HeaderParts}

\* authHeader && authHeader.split(' ')[1]
TokenOf(authHeader) ==
    IF ~authHeader.present THEN UndefinedWord
    ELSE IF authHeader.parts = <<EmptyWord>> THEN EmptyWord
    ELSE IF Len(authHeader.parts) >= 2 THEN authHeader.parts[2]
    ELSE UndefinedWord

\* !token: undefined and the empty string are falsy
Falsy(token) == token.kind \in {"undefined", "empty"}

\* jwt.verify(token, secret): the payload of a well-formed, unexpired token
\* signed with the secret; throws otherwise
jwt_verify(token, secret) ==
    IF token.kind = "jwt" /\ token.key = secret /\ ~token.expired
    THEN Returned(token.payload)
    ELSE Threw

\* authMiddleWare that lets a request through when verification throws
authMiddleWare_NextOnError(c) ==
    LET token == TokenOf(c.header)
        decoded == jwt_verify(token, JWT_SECRET_KEY)
    IN  IF Falsy(token) THEN [c EXCEPT !.res = Append(@, 401)]
        ELSE IF decoded.threw THEN [c EXCEPT !.next = TRUE]
        ELSE [c EXCEPT !.userInfo = decoded.value, !.next = TRUE]

authMiddleWare(c) ==
    LET token == TokenOf(c.header)
        decoded == jwt_verify(token, JWT_SECRET_KEY)
    IN  IF Falsy(token) THEN [c EXCEPT !.res = Append(@, 401)]
        ELSE IF decoded.threw THEN [c EXCEPT !.res = Append(@, 403)]
        ELSE [c EXCEPT !.userInfo = decoded.value, !.next = TRUE]

\* adminMiddleWare that compares with == instead of !==
adminMiddleWare_Inverted(c) ==
    IF c.userInfo = NoInfo THEN [c EXCEPT !.res = Append(@, 500)]
    ELSE IF c.userInfo.role = "admin" THEN [c EXCEPT !.res = Append(@, 403)]
    ELSE [c EXCEPT !.next = TRUE]

\* reading req.userInfo.role of an unset req.userInfo throws a TypeError,
\* which Express answers with 500
adminMiddleWare(c) ==
    IF c.userInfo = NoInfo THEN [c EXCEPT !.res = Append(@, 500)]
    ELSE IF c.userInfo.role # "admin" THEN [c EXCEPT !.res = Append(@, 403)]
    ELSE [c EXCEPT !.next = TRUE]

\* app.get('/api/profile', ...): answers with req.userInfo
profile(c) == [c EXCEPT !.res = Append(@, 200), !.seen = c.userInfo]

\* router.get('/dashboard', ...)
dashboard(c) == [c EXCEPT !.res = Append(@, 200), !.seen = c.userInfo]

\* the multipart file parts a client may send: the expected field with an
\* image, with a non-image, with an image over the 5MB limit, and an image
\* under another field name
Files ==
    {NoFile,
     [field |-> "image", mimetype |-> "image/png", big |-> FALSE],
     [field |-> "image", mimetype |-> "text/plain", big |-> FALSE],
     [field |-> "image", mimetype |-> "image/png", big |-> TRUE],
     [field |-> "avatar", mimetype |-> "image/png", big |-> FALSE]}

\* file.mimetype.startsWith('image')
StartsWithImage(mimetype) == mimetype \in {"image/png"}

\* checkFileFilter: cb(null, true) for an image, cb(new Error(...)) otherwise
checkFileFilter(file) == StartsWithImage(file.mimetype)

\* a file filter that accepts every file
uploadMiddleWare_NoFilter(c) ==
    IF c.file = NoFile THEN [c EXCEPT !.next = TRUE]
    ELSE IF c.file.field # "image" THEN [c EXCEPT !.res = Append(@, 500)]
    ELSE IF c.file.big THEN [c EXCEPT !.res = Append(@, 500)]
    ELSE [c EXCEPT !.reqFile = c.file, !.next = TRUE]

\* uploadMiddleWare.single('image'): without a file part req.file stays
\* undefined; a part under another field, a part the filter rejects and a
\* part over limits.fileSize end in next(err), which Express answers with
\* 500; otherwise the file is written to uploads/ and becomes req.file
uploadMiddleWare(c) ==
    IF c.file = NoFile THEN [c EXCEPT !.next = TRUE]
    ELSE IF c.file.field # "image" THEN [c EXCEPT !.res = Append(@, 500)]
    ELSE IF ~checkFileFilter(c.file) THEN [c EXCEPT !.res = Append(@, 500)]
    ELSE IF c.file.big THEN [c EXCEPT !.res = Append(@, 500)]
    ELSE [c EXCEPT !.reqFile = c.file, !.next = TRUE]

Handle(name, c) ==
    CASE name = "authMiddleWare" -> authMiddleWare(c)
      [] name = "adminMiddleWare" -> adminMiddleWare(c)
      [] name = "uploadMiddleWare" -> uploadMiddleWare(c)
      [] name = "profile" -> profile(c)
      [] name = "dashboard" -> dashboard(c)

\* Express runs the handlers of a route in the order they were registered,
\* each one only if the one before it called next()
RECURSIVE RunFrom(_, _, _)
RunFrom(chain, i, c) ==
    IF i > Len(chain) THEN c
    ELSE LET d == Handle(chain[i], [c EXCEPT !.trace = Append(@, chain[i]),
                                             !.next = FALSE])
         IN  IF d.next THEN RunFrom(chain, i + 1, d) ELSE d

ProfileRoute == <<"authMiddleWare", "profile">>

DashboardRoute == <<"authMiddleWare", "adminMiddleWare", "dashboard">>

GetProfile ==
    \E h \in Headers :
        /\ last' = RunFrom(ProfileRoute, 1,
                           [NoRequest EXCEPT !.op = "profile", !.header = h])
        /\ UNCHANGED <<bookVars, imageVars, userVars, pending, otherVars>>

GetDashboard ==
    \E h \in Headers :
        /\ last' = RunFrom(DashboardRoute, 1,
                           [NoRequest EXCEPT !.op = "dashboard", !.header = h])
        /\ UNCHANGED <<bookVars, imageVars, userVars, pending, otherVars>>

InitAuth ==
    /\ EmptyBooks
    /\ EmptyImages
    /\ EmptyUsers
    /\ EmptyOthers
    /\ last = NoRequest

NextAuth ==
    \/ GetProfile
    \/ GetDashboard

SpecAuth == InitAuth /\ [][NextAuth]_vars

\* the token of the last request verifies against the server's secret
TokenVerifies ==
    LET token == TokenOf(last.header) IN
    /\ token.kind = "jwt"
    /\ token.key = JWT_SECRET_KEY
    /\ ~token.expired

GuardedOps == {"profile", "dashboard"}

----------------------------------------------------------------------------
(* C2: authMiddleWare responds with 401 and does not call next() whenever  *)
(* the Authorization token is missing or fails verification.               *)

C2_Rejects401 ==
    (last.op \in GuardedOps /\ ~TokenVerifies) =>
        /\ last.res = <<401>>
        /\ last.trace = <<"authMiddleWare">>

----------------------------------------------------------------------------
(* C3: on a route guarded by authMiddleWare the route handler runs exactly *)
(* when the token verifies against the secret; it then runs after          *)
(* authMiddleWare and sees req.userInfo equal to the decoded payload;      *)
(* otherwise the request is ended with one access-denied response (401 or  *)
(* 403) and the handler never runs.                                        *)

C3_HandlerOnlyAfterAuth ==
    last.op = "profile" =>
        /\ Ran(last.trace, "profile") <=> TokenVerifies
        /\ Ran(last.trace, "profile") =>
              /\ Pos(last.trace, "authMiddleWare") = 1
              /\ Pos(last.trace, "profile") = 2
              /\ last.seen = TokenOf(last.header).payload
              /\ last.res = <<200>>
        /\ ~Ran(last.trace, "profile") =>
              /\ last.trace = <<"authMiddleWare">>
              /\ last.res \in {<<401>>, <<403>>}
              /\ last.seen = NoInfo

C3_Witness ==
    /\ last.op = "profile"
    /\ Ran(last.trace, "profile")
    /\ last.seen.userId = 1
    /\ last.seen.role = "user"

----------------------------------------------------------------------------
(* C4: on a route guarded by authMiddleWare then adminMiddleWare,          *)
(* authMiddleWare runs first and the handler executes only for a verified  *)
(* token with role 'admin'; a valid token with any other role gets 403 and *)
(* the handler does not execute.                                           *)

C4_AdminOnly ==
    last.op = "dashboard" =>
        /\ last.trace[1] = "authMiddleWare"
        /\ Ran(last.trace, "adminMiddleWare") =>
              Pos(last.trace, "adminMiddleWare") = 2
        /\ Ran(last.trace, "dashboard") =>
              /\ TokenVerifies
              /\ TokenOf(last.header).payload.role = "admin"
              /\ Pos(last.trace, "dashboard") = 3
        /\ (TokenVerifies /\ TokenOf(last.header).payload.role # "admin") =>
              /\ last.res = <<403>>
              /\ last.trace = <<"authMiddleWare", "adminMiddleWare">>

\* a verified token of a plain user is stopped by adminMiddleWare
C4_Witness ==
    /\ last.op = "dashboard"
    /\ TokenVerifies
    /\ TokenOf(last.header).payload.role = "user"
    /\ last.res = <<403>>
    /\ last.trace = <<"authMiddleWare", "adminMiddleWare">>

----------------------------------------------------------------------------
(* Image upload and delete: upload-middleware.js, cloudinary-helper.js,    *)
(* image-controller.js, image-routes.js                                    *)

ImageIds == 1..MaxUploads

\* secure_url of the asset with a given public_id
UrlOf(publicId) == publicId + 100

\* uploadToCloudinary(filePath): cloudinary.uploader.upload creates an asset
\* and the helper returns { url, publicId }, or the upload throws and the
\* helper rethrows
uploadToCloudinary(ok) ==
    IF ok THEN Returned([url |-> UrlOf(nextPublicId), publicId |-> nextPublicId])
    ELSE Threw

\* the asset an upload creates; uploader records whose request created it
Asset(uploaded, userId) ==
    [publicId |-> uploaded.publicId, url |-> uploaded.url, uploader |-> userId]

\* ImageSchema: url, publicId and uploadedBy are required
ImageSchemaValid(doc) ==
    doc.url # Undef /\ doc.publicId # Undef /\ doc.uploadedBy # Undef

\* newlyUploadedImage.save()
Image_save(doc, dbOk) ==
    IF dbOk /\ ImageSchemaValid(doc) THEN Returned(doc) ELSE Threw

\* The controllers yield the context (with the statuses sent) and the
\* Cloudinary assets and Image documents they leave.  fails names the awaited
\* call that throws in this request, "none" if none does.

\* uploadImage saving a second time when the save fails
uploadImage_RetrySave(c, fails) ==
    IF c.reqFile = NoFile
    THEN [c |-> [c EXCEPT !.res = Append(@, 400)], cloud |-> cloud, images |-> images]
    ELSE
    LET up == uploadToCloudinary(fails # "upload") IN
    IF up.threw
    THEN [c |-> [c EXCEPT !.res = Append(@, 500), !.calls = <<"upload">>],
          cloud |-> cloud, images |-> images]
    ELSE LET newlyUploadedImage == [id |-> nextImageId, url |-> up.value.url,
                                    publicId |-> up.value.publicId,
                                    uploadedBy |-> c.userInfo.userId]
             saved == Image_save(newlyUploadedImage, fails # "save")
         IN  IF saved.threw
             THEN [c |-> [c EXCEPT !.res = Append(@, 500),
                                   !.calls = <<"upload", "save", "save">>],
                   cloud |-> cloud \cup {Asset(up.value, c.userInfo.userId)}, images |-> images]
             ELSE [c |-> [c EXCEPT !.res = Append(@, 201),
                                   !.calls = <<"upload", "save">>],
                   cloud |-> cloud \cup {Asset(up.value, c.userInfo.userId)},
                   images |-> images \cup {saved.value}]

uploadImage(c, fails) ==
    IF c.reqFile = NoFile
    THEN [c |-> [c EXCEPT !.res = Append(@, 400)], cloud |-> cloud, images |-> images]
    ELSE
    LET up == uploadToCloudinary(fails # "upload") IN
    IF up.threw
    THEN [c |-> [c EXCEPT !.res = Append(@, 500), !.calls = <<"upload">>],
          cloud |-> cloud, images |-> images]
    ELSE LET newlyUploadedImage == [id |-> nextImageId, url |-> up.value.url,
                                    publicId |-> up.value.publicId,
                                    uploadedBy |-> c.userInfo.userId]
             saved == Image_save(newlyUploadedImage, fails # "save")
         IN  IF saved.threw
             THEN [c |-> [c EXCEPT !.res = Append(@, 500),
                                   !.calls = <<"upload", "save">>],
                   cloud |-> cloud \cup {Asset(up.value, c.userInfo.userId)}, images |-> images]
             ELSE [c |-> [c EXCEPT !.res = Append(@, 201),
                                   !.calls = <<"upload", "save">>],
                   cloud |-> cloud \cup {Asset(up.value, c.userInfo.userId)},
                   images |-> images \cup {saved.value}]

ImageWithId(id) == {i \in images : i.id = id}

\* Image.findById(id)
Image_findById(id, dbOk) ==
    IF ~dbOk \/ id = MalformedId THEN Threw ELSE Returned(ImageWithId(id))

\* cloudinary.uploader.destroy(publicId): removes the asset if there is one
cloudinary_destroy(publicId, ok) ==
    IF ok THEN Returned({a \in cloud : a.publicId # publicId}) ELSE Threw

\* Image.findByIdAndDelete(id)
Image_findByIdAndDelete(id, dbOk) ==
    IF ~dbOk \/ id = MalformedId THEN Threw ELSE Returned(images \ ImageWithId(id))

\* deleteImage without the ownership check
deleteImage_NoOwnerCheck(c, id, fails) ==
    LET userId == c.userInfo.userId
        found == Image_findById(id, fails # "findById")
        unchanged(status, calls) ==
            [c |-> [c EXCEPT !.res = Append(@, status), !.calls = calls],
             cloud |-> cloud, images |-> images]
    IN  IF found.threw THEN unchanged(500, <<"findById">>)
        ELSE IF found.value = {} THEN unchanged(400, <<"findById">>)
        ELSE LET image == CHOOSE i \in found.value : TRUE
                 destroyed == cloudinary_destroy(image.publicId, fails # "destroy")
                 deleted == Image_findByIdAndDelete(id, fails # "findByIdAndDelete")
             IN  IF destroyed.threw THEN unchanged(500, <<"findById", "destroy">>)
                 ELSE IF deleted.threw
                 THEN [c |-> [c EXCEPT !.res = Append(@, 500),
                                         !.calls = <<"findById", "destroy", "findByIdAndDelete">>],
                       cloud |-> destroyed.value, images |-> images]
                 ELSE [c |-> [c EXCEPT !.res = Append(@, 200),
                                         !.calls = <<"findById", "destroy", "findByIdAndDelete">>],
                       cloud |-> destroyed.value, images |-> deleted.value]

deleteImage(c, id, fails) ==
    LET userId == c.userInfo.userId
        found == Image_findById(id, fails # "findById")
        unchanged(status, calls) ==
            [c |-> [c EXCEPT !.res = Append(@, status), !.calls = calls],
             cloud |-> cloud, images |-> images]
    IN  IF found.threw THEN unchanged(500, <<"findById">>)
        ELSE IF found.value = {} THEN unchanged(400, <<"findById">>)
        ELSE LET image == CHOOSE i \in found.value : TRUE
                 destroyed == cloudinary_destroy(image.publicId, fails # "destroy")
                 deleted == Image_findByIdAndDelete(id, fails # "findByIdAndDelete")
             IN  IF image.uploadedBy # userId THEN unchanged(403, <<"findById">>)
                 ELSE IF destroyed.threw THEN unchanged(500, <<"findById", "destroy">>)
                 ELSE IF deleted.threw
                 THEN [c |-> [c EXCEPT !.res = Append(@, 500),
                                         !.calls = <<"findById", "destroy", "findByIdAndDelete">>],
                       cloud |-> destroyed.value, images |-> images]
                 ELSE [c |-> [c EXCEPT !.res = Append(@, 200),
                                         !.calls = <<"findById", "destroy", "findByIdAndDelete">>],
                       cloud |-> destroyed.value, images |-> deleted.value]

\* the tokens sent to the image routes: none, a forged and an expired admin
\* token, and valid tokens of a plain user, of an admin without userId and
\* of two admins
ImageHeaders ==
    {NoHeader} \cup
    {[present |-> TRUE, parts |-> <<Bearer, t>>] : t \in
        {Word("jwt", [userId |-> 1, role |-> "admin"], "forged", FALSE),
         Word("jwt", [userId |-> 1, role |-> "admin"], JWT_SECRET_KEY, TRUE),
         Word("jwt", [userId |-> 1, role |-> "user"], JWT_SECRET_KEY, FALSE),
         Word("jwt", [userId |-> Undef, role |-> "admin"], JWT_SECRET_KEY, FALSE)}
        \cup {Word("jwt", [userId |-> u, role |-> "admin"], JWT_SECRET_KEY, FALSE) :
                u \in {1, 2}}}

\* router.post('/upload', authMiddleWare, adminMiddleWare,
\*             uploadMiddleWare.single('image'), uploadImage)
UploadRoute == <<"authMiddleWare", "adminMiddleWare", "uploadMiddleWare">>

\* router.delete('/:id', authMiddleWare, adminMiddleWare, deleteImage)
DeleteRoute == <<"authMiddleWare", "adminMiddleWare">>

PostUpload ==
    \E h \in ImageHeaders, f \in Files, fails \in {"none", "upload", "save"} :
        LET c == RunFrom(UploadRoute, 1,
                         [NoRequest EXCEPT !.op = "uploadImage", !.header = h,
                                           !.file = f, !.fails = fails])
            r == uploadImage([c EXCEPT !.trace = Append(@, "uploadImage"),
                                       !.next = FALSE], fails)
        IN  /\ uploads < MaxUploads
            /\ uploads' = IF c.reqFile # NoFile THEN uploads + 1 ELSE uploads
            /\ IF c.next
               THEN /\ last' = r.c
                    /\ cloud' = r.cloud
                    /\ images' = r.images
                    /\ nextPublicId' = IF r.cloud # cloud THEN nextPublicId + 1
                                       ELSE nextPublicId
                    /\ nextImageId' = IF r.images # images THEN nextImageId + 1
                                      ELSE nextImageId
               ELSE /\ last' = c
                    /\ UNCHANGED <<cloud, images, nextPublicId, nextImageId>>
            /\ UNCHANGED <<bookVars, userVars, otherVars>>

DeleteImage ==
    \E h \in ImageHeaders, id \in ImageIds \cup {MalformedId},
       fails \in {"none", "findById", "destroy", "findByIdAndDelete"} :
        LET c == RunFrom(DeleteRoute, 1,
                         [NoRequest EXCEPT !.op = "deleteImage", !.header = h,
                                           !.id = id, !.fails = fails])
            r == deleteImage([c EXCEPT !.trace = Append(@, "deleteImage"),
                                       !.next = FALSE], id, fails)
        IN  /\ IF c.next
               THEN /\ last' = r.c
                    /\ cloud' = r.cloud
                    /\ images' = r.images
               ELSE /\ last' = c
                    /\ UNCHANGED <<cloud, images>>
            /\ UNCHANGED <<uploads, nextPublicId, nextImageId, bookVars, userVars, otherVars>>

InitImage ==
    /\ EmptyBooks
    /\ EmptyImages
    /\ EmptyUsers
    /\ EmptyOthers
    /\ last = NoRequest

NextImage ==
    \/ PostUpload
    \/ DeleteImage

SpecImage == InitImage /\ [][NextImage]_vars

\* the token of the last request verifies and carries role 'admin'
AdminToken == TokenVerifies /\ TokenOf(last.header).payload.role = "admin"

----------------------------------------------------------------------------
(* C5: POST /api/image/upload stores a file, uploads to Cloudinary and     *)
(* creates an Image record only for a request that passed, in this order,  *)
(* authMiddleWare (valid token), adminMiddleWare (role admin) and the      *)
(* multer filter (mimetype starting with 'image'); such a request without  *)
(* a file reaches uploadImage, gets 400 and causes no Cloudinary upload    *)
(* and no Image record.                                                    *)

C5_UploadOnlyPastGuards ==
    [][last'.op = "uploadImage" =>
        /\ (uploads' # uploads \/ cloud' # cloud \/ images' # images) =>
              /\ AdminToken'
              /\ last'.file # NoFile
              /\ StartsWithImage(last'.file.mimetype)
              /\ SubSeq(last'.trace, 1, 3) = UploadRoute
        /\ (cloud' # cloud \/ images' # images) =>
              /\ uploads' # uploads
              /\ last'.trace = UploadRoute \o <<"uploadImage">>
        /\ last'.file = NoFile =>
              /\ UNCHANGED <<uploads, cloud, images>>
              /\ AdminToken' =>
                    /\ last'.res = <<400>>
                    /\ last'.trace = UploadRoute \o <<"uploadImage">>
              /\ ~AdminToken' => ~Ran(last'.trace, "uploadImage")
    ]_vars

\* an admin's image was stored, uploaded and recorded
C5_Witness ==
    /\ last.op = "uploadImage"
    /\ last.res = <<201>>
    /\ uploads > 0
    /\ \E i \in images : \E a \in cloud : a.publicId = i.publicId

----------------------------------------------------------------------------
(* C6: deleteImage deletes an image only for its uploader: a request whose *)
(* token userId differs from the image's uploadedBy gets 403 and leaves    *)
(* both the Cloudinary asset and the Image record unchanged; a request for *)
(* an id with no Image record gets 400 and changes nothing.                *)

ReachedDeleteImage == last.op = "deleteImage" /\ Ran(last.trace, "deleteImage")

\* C6 as stated
C6_UploaderOnly ==
    [][ReachedDeleteImage' =>
        LET image == ImageWithId(last'.id)
            userId == last'.userInfo.userId
        IN  /\ (cloud' # cloud \/ images' # images) =>
                  \E i \in image : i.uploadedBy = userId
            /\ (\E i \in image : i.uploadedBy # userId) =>
                  /\ last'.res = <<403>>
                  /\ UNCHANGED <<cloud, images>>
            /\ image = {} =>
                  /\ last'.res = <<400>>
                  /\ UNCHANGED <<cloud, images>>
    ]_vars

\* C6 as amended: the 403 and the 400 are sent when Image.findById
\* returns; when it throws (a malformed id, a driver error) the response is
\* 500, and nothing changes either
C6_UploaderOnlyAmended ==
    [][ReachedDeleteImage' =>
        LET image == ImageWithId(last'.id)
            userId == last'.userInfo.userId
            lookupThrows == last'.fails = "findById" \/ last'.id = MalformedId
        IN  /\ (cloud' # cloud \/ images' # images) =>
                  \E i \in image : i.uploadedBy = userId
            /\ (\E i \in image : i.uploadedBy # userId) =>
                  /\ last'.res = IF lookupThrows THEN <<500>> ELSE <<403>>
                  /\ UNCHANGED <<cloud, images>>
            /\ image = {} =>
                  /\ last'.res = IF lookupThrows THEN <<500>> ELSE <<400>>
                  /\ UNCHANGED <<cloud, images>>
    ]_vars

\* an admin was refused the deletion of an image another admin uploaded
C6_Witness ==
    /\ ReachedDeleteImage
    /\ last.res = <<403>>
    /\ \E i \in ImageWithId(last.id) :
          /\ i.uploadedBy # last.userInfo.userId
          /\ \E a \in cloud : a.publicId = i.publicId

----------------------------------------------------------------------------
(* C7: after any deleteImage request has completed, with any status, the   *)
(* image is removed from both Cloudinary and MongoDB or from neither: no   *)
(* reachable state has the Cloudinary asset destroyed while its Image      *)
(* record still exists.                                                    *)

C7_BothOrNeither ==
    \A i \in images : \E a \in cloud : a.publicId = i.publicId

----------------------------------------------------------------------------
(* C8: in every reachable state, each asset that uploadToCloudinary        *)
(* created has an Image record holding its url, its publicId and the       *)
(* uploader's userId.                                                      *)

C8_Traceable ==
    \A a \in cloud :
        \E i \in images :
            /\ i.url = a.url
            /\ i.publicId = a.publicId
            /\ i.uploadedBy = a.uploader

----------------------------------------------------------------------------
(* Registration and password change: auth-controller.js                    *)

Usernames == {1, 2}

Emails == {1, 2}

\* plaintext passwords; 1 and 2 agree on their first 72 bytes and differ
\* after them, 3 differs from both within the first 72 bytes
Passwords == {1, 2, 3}

\* the part of a password bcrypt hashes: its first 72 bytes
Head72(password) == (password + 1) \div 2

Salts == {1, 2}

\* bcrypt.hash(password, salt): a string that embeds the salt and a digest
\* of the salted first 72 bytes; throws when given no password
bcrypt_hash(password, salt) ==
    IF password = Undef THEN Threw
    ELSE Returned(100 + 10 * salt + Head72(password))

SaltOf(hash) == (hash - 100) \div 10

\* bcrypt.compare(password, hash): hashes the password with the salt of the
\* hash and compares; throws when given no password
bcrypt_compare(password, hash) ==
    IF password = Undef THEN Threw
    ELSE Returned(bcrypt_hash(password, SaltOf(hash)).value = hash)

\* the roles a registration request may carry: 'admin', none, and ''
BodyRoles == {"admin", "undefined", ""}

\* User.findOne({ $or: [{ username }, { email }] })
User_findOne(username, email, dbOk) ==
    IF ~dbOk THEN Threw
    ELSE Returned({u \in users : u.username = username \/ u.email = email})

\* newlyCreatedUser.save() and user.save(): resolve to the document or throw
User_save(doc, dbOk) == IF dbOk THEN Returned(doc) ELSE Threw

\* a registration that ignores the role of the request
RoleOrUser_AlwaysUser(role) == "user"

\* role || 'user'
RoleOrUser(role) == IF role \in {"undefined", ""} THEN "user" ELSE role

\* The controllers yield the statuses they send and the collection they
\* leave.  fails names the awaited call that throws in this request.

\* registerUser without the check for an existing user
registerUser_NoExistingCheck(body, salt, fails) ==
    LET checkExistingUser == User_findOne(body.username, body.email, fails # "findOne")
        hashedPassword == bcrypt_hash(body.password, salt)
        newlyCreatedUser == [id |-> nextUserId, username |-> body.username,
                             email |-> body.email, password |-> hashedPassword.value,
                             role |-> RoleOrUser(body.role)]
        failed == [res |-> <<500>>, users |-> users]
    IN  IF checkExistingUser.threw THEN failed
        ELSE IF hashedPassword.threw THEN failed
        ELSE IF User_save(newlyCreatedUser, fails # "save").threw THEN failed
        ELSE [res |-> <<201>>, users |-> users \cup {newlyCreatedUser}]

\* registerUser that saves the password of the request instead of its hash
registerUser_StoresPlain(body, salt, fails) ==
    LET checkExistingUser == User_findOne(body.username, body.email, fails # "findOne")
        hashedPassword == bcrypt_hash(body.password, salt)
        newlyCreatedUser == [id |-> nextUserId, username |-> body.username,
                             email |-> body.email, password |-> body.password,
                             role |-> RoleOrUser(body.role)]
        failed == [res |-> <<500>>, users |-> users]
    IN  IF checkExistingUser.threw THEN failed
        ELSE IF checkExistingUser.value # {} THEN [res |-> <<400>>, users |-> users]
        ELSE IF hashedPassword.threw THEN failed
        ELSE IF User_save(newlyCreatedUser, fails # "save").threw THEN failed
        ELSE [res |-> <<201>>, users |-> users \cup {newlyCreatedUser}]

\* newlyCreatedUser is an object, so the 404 branch of the final if is dead
registerUser(body, salt, fails) ==
    LET checkExistingUser == User_findOne(body.username, body.email, fails # "findOne")
        hashedPassword == bcrypt_hash(body.password, salt)
        newlyCreatedUser == [id |-> nextUserId, username |-> body.username,
                             email |-> body.email, password |-> hashedPassword.value,
                             role |-> RoleOrUser(body.role)]
        failed == [res |-> <<500>>, users |-> users]
    IN  IF checkExistingUser.threw THEN failed
        ELSE IF checkExistingUser.value # {} THEN [res |-> <<400>>, users |-> users]
        ELSE IF hashedPassword.threw THEN failed
        ELSE IF User_save(newlyCreatedUser, fails # "save").threw THEN failed
        ELSE [res |-> <<201>>, users |-> users \cup {newlyCreatedUser}]

UserWithId(id) == {u \in users : u.id = id}

\* User.findById(userId); an undefined id finds nothing
User_findById(id, dbOk) == IF ~dbOk THEN Threw ELSE Returned(UserWithId(id))

\* changePassword without the comparison of the old password
changePassword_NoCompare(userInfo, body, salt, fails) ==
    LET found == User_findById(userInfo.userId, fails # "findById")
        failed == [res |-> <<500>>, users |-> users]
    IN  IF found.threw THEN failed
        ELSE IF found.value = {} THEN [res |-> <<400>>, users |-> users]
        ELSE LET user == CHOOSE u \in found.value : TRUE
                 hashNewPassword == bcrypt_hash(body.newPassword, salt)
             IN  IF hashNewPassword.threw THEN failed
                 ELSE IF User_save(user, fails # "save").threw THEN failed
                 ELSE [res |-> <<200>>,
                       users |-> (users \ {user}) \cup
                           {[user EXCEPT !.password = hashNewPassword.value]}]

changePassword(userInfo, body, salt, fails) ==
    LET found == User_findById(userInfo.userId, fails # "findById")
        failed == [res |-> <<500>>, users |-> users]
    IN  IF found.threw THEN failed
        ELSE IF found.value = {} THEN [res |-> <<400>>, users |-> users]
        ELSE LET user == CHOOSE u \in found.value : TRUE
                 isPasswordMatch == bcrypt_compare(body.oldPassword, user.password)
                 hashNewPassword == bcrypt_hash(body.newPassword, salt)
             IN  IF isPasswordMatch.threw THEN failed
                 ELSE IF ~isPasswordMatch.value
                 THEN [res |-> <<400>>, users |-> users]
                 ELSE IF hashNewPassword.threw THEN failed
                 ELSE IF User_save(user, fails # "save").threw THEN failed
                 ELSE [res |-> <<200>>,
                       users |-> (users \ {user}) \cup
                           {[user EXCEPT !.password = hashNewPassword.value]}]

\* a registration request with its fields drawn from the given sets; with
\* ownEmail each username comes with the one email of the same number
RegisterUserFrom(ownEmail, passwords, roles, failures) ==
    \E username \in Usernames, password \in passwords, role \in roles,
       salt \in Salts, fails \in failures :
        \E email \in (IF ownEmail THEN {username} ELSE Emails) :
        LET body == [NoBody EXCEPT !.username = username, !.email = email,
                                   !.password = password, !.role = role]
            r == registerUser(body, salt, fails)
        IN  /\ nextUserId <= MaxUsers
            /\ last' = [NoRequest EXCEPT !.op = "registerUser", !.body = body,
                                         !.fails = fails, !.res = r.res,
                                         !.trace = <<"registerUser">>]
            /\ users' = r.users
            /\ nextUserId' = IF r.users # users THEN nextUserId + 1 ELSE nextUserId
            /\ UNCHANGED <<bookVars, imageVars, otherVars>>

\* any registration request, with any awaited call failing
RegisterUser ==
    RegisterUserFrom(FALSE, Passwords \cup {Undef}, BodyRoles,
                     {"none", "findOne", "save"})

\* a well-formed registration request of a plain user, no call failing
RegisterPlainUser == RegisterUserFrom(TRUE, Passwords, {"undefined"}, {"none"})

\* changePassword reads req.userInfo.userId, the userId of a verified token
ChangePassword ==
    \E userId \in UserIds \cup {Undef},
       oldPassword \in Passwords \cup {Undef}, newPassword \in Passwords \cup {Undef},
       salt \in Salts, fails \in {"none", "findById", "save"} :
        LET body == [NoBody EXCEPT !.oldPassword = oldPassword,
                                   !.newPassword = newPassword]
            userInfo == [userId |-> userId, role |-> "user"]
            r == changePassword(userInfo, body, salt, fails)
        IN  /\ last' = [NoRequest EXCEPT !.op = "changePassword", !.body = body,
                                         !.userInfo = userInfo,
                                         !.fails = fails, !.res = r.res,
                                         !.trace = <<"changePassword">>]
            /\ users' = r.users
            /\ UNCHANGED <<nextUserId, bookVars, imageVars, otherVars>>

InitUser ==
    /\ EmptyBooks
    /\ EmptyImages
    /\ EmptyUsers
    /\ EmptyOthers
    /\ last = NoRequest

NextRegister == RegisterUser

SpecRegister == InitUser /\ [][NextRegister]_vars

NextPassword ==
    \/ RegisterPlainUser
    \/ ChangePassword

SpecPassword == InitUser /\ [][NextPassword]_vars

----------------------------------------------------------------------------
(* C9: changePassword replaces the stored password hash only when the      *)
(* supplied oldPassword matches the currently stored hash; when it does    *)
(* not match, or the user does not exist, the response is 400 and the      *)
(* stored password is unchanged; after a 200 response the new password     *)
(* verifies against the stored hash and the old one no longer does.        *)

\* the password verifies against the hash (bcrypt.compare resolves to true)
Verifies(password, hash) ==
    /\ password # Undef
    /\ Head72(password) = hash - 100 - 10 * SaltOf(hash)

\* C9 as stated
C9_ChangePassword ==
    [][last'.op = "changePassword" =>
        LET user == UserWithId(last'.userInfo.userId)
            oldPassword == last'.body.oldPassword
            newPassword == last'.body.newPassword
            matches == \E u \in user : Verifies(oldPassword, u.password)
        IN  /\ users' # users => matches
            /\ ~matches =>
                  /\ last'.res = <<400>>
                  /\ users' = users
            /\ last'.res = <<200>> =>
                  \A u \in {v \in users' : v.id = last'.userInfo.userId} :
                      /\ Verifies(newPassword, u.password)
                      /\ ~Verifies(oldPassword, u.password)
    ]_vars

\* C9 as amended: 400 is the answer when User.findById returns and
\* an oldPassword was supplied (500 otherwise), and after a 200 the old
\* password no longer verifies unless it agrees with the new one on the
\* first 72 bytes, which is all bcrypt hashes
C9_ChangePasswordAmended ==
    [][last'.op = "changePassword" =>
        LET user == UserWithId(last'.userInfo.userId)
            oldPassword == last'.body.oldPassword
            newPassword == last'.body.newPassword
            matches == \E u \in user : Verifies(oldPassword, u.password)
            throws == \/ last'.fails = "findById"
                      \/ (user # {} /\ oldPassword = Undef)
        IN  /\ users' # users =>
                  /\ matches
                  /\ last'.res = <<200>>
                  /\ \E u \in user, salt \in Salts :
                        users' = (users \ {u}) \cup
                            {[u EXCEPT !.password = 100 + 10 * salt + Head72(newPassword)]}
            /\ ~matches =>
                  /\ last'.res = IF throws THEN <<500>> ELSE <<400>>
                  /\ users' = users
            /\ last'.res = <<200>> =>
                  \A u \in {v \in users' : v.id = last'.userInfo.userId} :
                      /\ Verifies(newPassword, u.password)
                      /\ Head72(oldPassword) # Head72(newPassword) =>
                            ~Verifies(oldPassword, u.password)
    ]_vars

\* a password was changed: the new one verifies and the old one does not
C9_Witness ==
    /\ last.op = "changePassword"
    /\ last.res = <<200>>
    /\ \E u \in UserWithId(last.userInfo.userId) :
          /\ Verifies(last.body.newPassword, u.password)
          /\ ~Verifies(last.body.oldPassword, u.password)

----------------------------------------------------------------------------
(* C10: registerUser returns 400 and saves no user whenever a stored user  *)
(* already has the same username or the same email; otherwise it saves     *)
(* exactly one new user and returns 201.                                   *)

\* a stored user has the username or the email of the request
Exists(body) == \E u \in users : u.username = body.username \/ u.email = body.email

SavedOne(body) ==
    /\ users \subseteq users'
    /\ Cardinality(users' \ users) = 1
    /\ \A u \in users' \ users :
          u.username = body.username /\ u.email = body.email

\* C10 as stated
C10_Register ==
    [][last'.op = "registerUser" =>
        /\ Exists(last'.body) =>
              /\ last'.res = <<400>>
              /\ users' = users
        /\ ~Exists(last'.body) =>
              /\ last'.res = <<201>>
              /\ SavedOne(last'.body)
    ]_vars

\* C10 as amended: when an awaited call throws (the lookup, the
\* hashing of a missing password, the save) the answer is 500 and no user
\* is saved
C10_RegisterAmended ==
    [][last'.op = "registerUser" =>
        LET body == last'.body
            lookupThrows == last'.fails = "findOne"
            laterThrows == body.password = Undef \/ last'.fails = "save"
        IN  /\ Exists(body) =>
                  /\ last'.res = IF lookupThrows THEN <<500>> ELSE <<400>>
                  /\ users' = users
            /\ (~Exists(body) /\ (lookupThrows \/ laterThrows)) =>
                  /\ last'.res = <<500>>
                  /\ users' = users
            /\ (~Exists(body) /\ ~lookupThrows /\ ~laterThrows) =>
                  /\ last'.res = <<201>>
                  /\ SavedOne(body)
    ]_vars

\* a second registration under a taken email was refused
C10_Witness ==
    /\ last.op = "registerUser"
    /\ last.res = <<400>>
    /\ Cardinality(users) = 1
    /\ \E u \in users :
          u.email = last.body.email /\ u.username # last.body.username

----------------------------------------------------------------------------
(* C11: only the hash is saved in the database, never the real password:   *)
(* after any sequence of registerUser and changePassword requests, no      *)
(* stored user's password field equals a plaintext password supplied in a  *)
(* request.                                                                *)

C11_OnlyHashStored == \A u \in users : u.password \notin Passwords

\* a registered user changed the password, and the stored field verifies the
\* new password without being it
C11_Witness ==
    /\ last.op = "changePassword"
    /\ last.res = <<200>>
    /\ \E u \in UserWithId(last.userInfo.userId) :
          /\ Verifies(last.body.newPassword, u.password)
          /\ u.password # last.body.newPassword
          /\ last.body.newPassword # last.body.oldPassword

----------------------------------------------------------------------------
(* C12: registerUser stores role 'user' when the request gives no role,    *)
(* and otherwise stores the role exactly as the request supplied it, so a  *)
(* request with role 'admin' creates a user that passes adminMiddleWare.   *)

\* the payload of the token a stored user logs in with: { userId, username, role }
LoginPayload(u) == [userId |-> u.id, role |-> u.role]

PassesAdmin(u) ==
    adminMiddleWare([NoRequest EXCEPT !.userInfo = LoginPayload(u)]).next

\* a request gives no role when the field is absent or empty: the code reads
\* role || 'user'
C12_RoleStored ==
    [][(last'.op = "registerUser" /\ last'.res = <<201>>) =>
        \A u \in users' \ users :
            /\ u.role = IF last'.body.role \in {"undefined", ""} THEN "user"
                        ELSE last'.body.role
            /\ last'.body.role = "admin" => PassesAdmin(u)
            /\ last'.body.role # "admin" => ~PassesAdmin(u)
    ]_vars

\* a registration with role 'admin' created a user that passes adminMiddleWare
C12_Witness ==
    /\ last.op = "registerUser"
    /\ last.res = <<201>>
    /\ last.body.role = "admin"
    /\ \E u \in users :
          /\ u.username = last.body.username
          /\ u.role = "admin"
          /\ PassesAdmin(u)

----------------------------------------------------------------------------
(* Image gallery: fetchImages with sorting and pagination *)

MaxStored == 6

MaxQueryNumber == 2

DefaultPage == 1

DefaultLimit == 5

\* a JavaScript number: NaN or an integer
NaN == [nan |-> TRUE, n |-> 0]

Num(n) == [nan |-> FALSE, n |-> n]

\* parseInt(v): the integer the string starts with, whatever follows it; NaN
\* for undefined and for a string that starts with no integer
parseInt(v) == IF v.present /\ v.hasInt THEN Num(v.int) ELSE NaN

\* x || d for a number x: NaN and 0 are falsy
OrDefault(x, d) == IF x.nan \/ x.n = 0 THEN d ELSE x.n

\* Math.ceil(a / b) for a >= 0 and b # 0
Math_ceil(a, b) == IF b > 0 THEN (a + b - 1) \div b ELSE -(a \div (-b))

\* timestamps: true stamps createdAt on every document; documents are
\* created in the order of their ids
CreatedAt(img) == img.id

\* the value of the field a sort key names
FieldOf(img, sortBy) ==
    CASE sortBy = "createdAt" -> CreatedAt(img)
      [] sortBy = "publicId"  -> img.publicId
      [] OTHER                -> 0

\* .sort({ [sortBy]: sortOrder }) over a set of documents
RECURSIVE Sorted(_, _, _)
Sorted(docs, sortBy, sortOrder) ==
    IF docs = {} THEN <<>>
    ELSE LET first == CHOOSE x \in docs : \A y \in docs :
                 sortOrder * FieldOf(x, sortBy) <= sortOrder * FieldOf(y, sortBy)
         IN  <<first>> \o Sorted(docs \ {first}, sortBy, sortOrder)

\* .skip(n): a negative skip is rejected by the server
Skipped(seq, n) == SubSeq(seq, n + 1, Len(seq))

\* .limit(n): a negative limit is read as its absolute value
Limited(seq, n) ==
    LET m == IF n < 0 THEN -n ELSE n
    IN  SubSeq(seq, 1, IF m < Len(seq) THEN m ELSE Len(seq))

\* Image.countDocuments()
Image_countDocuments(dbOk) == IF dbOk THEN Returned(Cardinality(images)) ELSE Threw

\* Image.find().sort(sortObj).skip(skip).limit(limit)
Image_find(sortBy, sortOrder, skip, limit, dbOk) ==
    IF ~dbOk \/ skip < 0 THEN Threw
    ELSE Returned(Limited(Skipped(Sorted(images, sortBy, sortOrder), skip), limit))

\* the skip computed with the page in place of page - 1
SkipOf_WholePage(page, limit) == page * limit

SkipOf(page, limit) == (page - 1) * limit

ServerError == [success |-> FALSE]

\* fetchImages yields the status sent, the JSON body of the response and the
\* calls it issued
fetchImages(query, fails) ==
    LET page == OrDefault(parseInt(query.page), DefaultPage)
        limit == OrDefault(parseInt(query.limit), DefaultLimit)
        skip == SkipOf(page, limit)
        sortBy == IF query.sortBy \in {"undefined", ""} THEN "createdAt"
                  ELSE query.sortBy
        sortOrder == IF query.sortOrder = "asc" THEN 1 ELSE -1
        totalImages == Image_countDocuments(fails # "countDocuments")
        found == Image_find(sortBy, sortOrder, skip, limit, fails # "find")
        calls == IF totalImages.threw THEN <<"countDocuments">>
                 ELSE <<"countDocuments", "find">>
    IN  IF totalImages.threw \/ found.threw
        THEN [res |-> <<500>>, json |-> ServerError, calls |-> calls]
        ELSE [res |-> <<200>>, calls |-> calls,
              json |-> [success |-> TRUE, currentPage |-> page,
                        totalPages |-> Math_ceil(totalImages.value, limit),
                        totalImages |-> totalImages.value,
                        data |-> found.value]]

QueryNumbers ==
    {Absent, NotANumber, Digits(2, TRUE)}
        \cup {Digits(n, FALSE) : n \in -1..MaxQueryNumber}

Queries ==
    [page : QueryNumbers, limit : QueryNumbers,
     sortBy : {"undefined"}, sortOrder : {"undefined", "asc"}]
    \cup [page : QueryNumbers, limit : QueryNumbers,
          sortBy : {"publicId"}, sortOrder : {"asc", "desc"}]

\* GET /get: fetchImages changes no collection
FetchImages ==
    \E query \in Queries, fails \in {"none", "countDocuments", "find"} :
        LET r == fetchImages(query, fails)
        IN  /\ last' = [NoRequest EXCEPT !.op = "fetchImages", !.query = query,
                            !.fails = fails, !.res = r.res, !.json = r.json,
                            !.calls = r.calls, !.trace = <<"fetchImages">>]
            /\ UNCHANGED <<bookVars, imageVars, userVars, pending, otherVars>>

\* the collection holds the images of n uploads; Cloudinary's public ids
\* bear no relation to the order of creation
StoredImages(n) ==
    {[id |-> i, url |-> UrlOf(n + 1 - i), publicId |-> n + 1 - i, uploadedBy |-> 1] :
        i \in 1..n}

InitFetch ==
    /\ EmptyBooks
    /\ EmptyUsers
    /\ EmptyOthers
    /\ \E n \in 0..MaxStored :
        /\ uploads = n
        /\ images = StoredImages(n)
        /\ cloud = {[publicId |-> i.publicId, url |-> i.url, uploader |-> i.uploadedBy] :
                        i \in StoredImages(n)}
        /\ nextImageId = n + 1
        /\ nextPublicId = n + 1
    /\ last = NoRequest

NextFetch == FetchImages

SpecFetch == InitFetch /\ [][NextFetch]_vars

\* a query gives a number when its value starts with an integer other than 0
Gives(v) == v.present /\ v.hasInt /\ v.int # 0

\* the place of an image in the order of the response
RankOf(img, sortBy, descending) ==
    1 + Cardinality({y \in images :
            IF descending THEN FieldOf(y, sortBy) > FieldOf(img, sortBy)
            ELSE FieldOf(y, sortBy) < FieldOf(img, sortBy)})

\* C13: a successful fetchImages reports page 1 and pages of 5 when the query
\* gives no page or limit (none, 0 or a non-number), orders the images by
\* createdAt (by sortBy when given) descending unless sortOrder is 'asc', and
\* for positive page and limit returns the images at places
\* (page-1)*limit+1 .. page*limit of that order, at most limit of them, with
\* totalPages = ceil(totalImages/limit) and currentPage = page
C13_Pagination ==
    (last.op = "fetchImages" /\ last.res = <<200>>) =>
        LET q == last.query
            j == last.json
            page == IF Gives(q.page) THEN q.page.int ELSE 1
            limit == IF Gives(q.limit) THEN q.limit.int ELSE 5
            sortBy == IF q.sortBy = "undefined" THEN "createdAt" ELSE q.sortBy
            total == Cardinality(images)
            left == IF total > (page - 1) * limit THEN total - (page - 1) * limit
                    ELSE 0
        IN  /\ j.currentPage = page
            /\ j.totalImages = total
            /\ (page > 0 /\ limit > 0) =>
                /\ Len(j.data) <= limit
                /\ Len(j.data) = IF left < limit THEN left ELSE limit
                /\ \A k \in 1..Len(j.data) :
                    /\ j.data[k] \in images
                    /\ RankOf(j.data[k], sortBy, q.sortOrder # "asc")
                           = (page - 1) * limit + k
                /\ j.totalPages * limit >= total
                /\ (j.totalPages - 1) * limit < total

\* the second page of six images under the default limit holds the oldest one
C13_Witness ==
    /\ last.op = "fetchImages"
    /\ last.res = <<200>>
    /\ last.query.page = Digits(2, FALSE)
    /\ last.query.limit = Absent
    /\ last.query.sortBy = "undefined"
    /\ last.query.sortOrder = "undefined"
    /\ Cardinality(images) = 6
    /\ Len(last.json.data) = 1
    /\ last.json.data[1].id = 1
    /\ last.json.totalPages = 2
    /\ last.json.currentPage = 2

----------------------------------------------------------------------------
(* Chat server: Socket.IO relays every chatMessage *)

MaxMessages == 3

Texts == {"hello", "bye"}

\* the messages a client has sent that the server has handled
ReceivedFrom(c) == SelectSeq(received, LAMBDA r : r.from = c)

RECURSIVE InFlight(_)
InFlight(cs) ==
    IF cs = {} THEN 0
    ELSE LET c == CHOOSE x \in cs : TRUE
         IN  Len(inflight[c]) + InFlight(cs \ {c})

\* the msgData the client script builds on submit; time stands for the
\* moment of sending, later for each later message of the client
MsgData(c, text) ==
    [user |-> c, text |-> text, time |-> Len(ReceivedFrom(c)) + Len(inflight[c]) + 1]

\* the handler with socket.broadcast.emit, which leaves the sender out
OnChatMessage_BroadcastOnly(c, msgData) == [msg |-> msgData, to |-> connected \ {c}]

\* socket.on('chatMessage', msgData => io.emit('chatMessage', msgData)): the
\* emission and the sockets it goes to
OnChatMessage(c, msgData) == [msg |-> msgData, to |-> connected]

\* io.on('connection')
Connect(c) ==
    /\ c \notin connected
    /\ connected' = connected \cup {c}
    /\ UNCHANGED <<inflight, received, emitted>>

\* socket.on('disconnect'): what the client sent and the server has not
\* handled is lost with the socket
Disconnect(c) ==
    /\ c \in connected
    /\ connected' = connected \ {c}
    /\ inflight' = [inflight EXCEPT ![c] = <<>>]
    /\ UNCHANGED <<received, emitted>>

\* the client script: socket.emit('chatMessage', msgData)
ClientSend(c, text) ==
    /\ c \in connected
    /\ Len(received) + InFlight(ChatClients) < MaxMessages
    /\ inflight' = [inflight EXCEPT ![c] = Append(@, MsgData(c, text))]
    /\ UNCHANGED <<connected, received, emitted>>

\* the server handles the next chatMessage of a socket
ServerReceive(c) ==
    /\ c \in connected
    /\ inflight[c] # <<>>
    /\ inflight' = [inflight EXCEPT ![c] = Tail(@)]
    /\ received' = Append(received, [from |-> c, msg |-> Head(inflight[c])])
    /\ emitted' = Append(emitted, OnChatMessage(c, Head(inflight[c])))
    /\ UNCHANGED connected

ChatConnect ==
    \E c \in ChatClients : Connect(c)
        /\ UNCHANGED <<bookVars, imageVars, userVars, pending, limiterVars, productVars, last>>

ChatDisconnect ==
    \E c \in ChatClients : Disconnect(c)
        /\ UNCHANGED <<bookVars, imageVars, userVars, pending, limiterVars, productVars, last>>

ChatSend ==
    \E c \in ChatClients, text \in Texts : ClientSend(c, text)
        /\ UNCHANGED <<bookVars, imageVars, userVars, pending, limiterVars, productVars, last>>

ChatReceive ==
    \E c \in ChatClients : ServerReceive(c)
        /\ UNCHANGED <<bookVars, imageVars, userVars, pending, limiterVars, productVars, last>>

InitChat ==
    /\ EmptyBooks
    /\ EmptyImages
    /\ EmptyUsers
    /\ EmptyOthers
    /\ last = NoRequest

NextChat == ChatConnect \/ ChatDisconnect \/ ChatSend \/ ChatReceive

SpecChat == InitChat /\ [][NextChat]_vars

\* the emissions are the received messages, one for one and in order, and
\* the messages of one client appear in the order the client sent them
InOrder ==
    /\ Len(emitted) = Len(received)
    /\ \A i \in 1..Len(emitted) : emitted[i].msg = received[i].msg
    /\ \A i, k \in 1..Len(emitted) :
        (i < k /\ received[i].from = received[k].from)
            => emitted[i].msg.time < emitted[k].msg.time

\* C14: each chatMessage the server receives is emitted unchanged, in the same
\* step, to exactly the clients connected at that moment, the sender among
\* them; nothing is emitted that was not received; the messages of one client
\* are emitted in the order the client sent them
C14_Relay ==
    [][/\ received' # received =>
            \E c \in connected :
                /\ inflight[c] # <<>>
                /\ received' = Append(received, [from |-> c, msg |-> Head(inflight[c])])
                /\ emitted' = Append(emitted, [msg |-> Head(inflight[c]), to |-> connected])
                /\ c \in emitted'[Len(emitted')].to
       /\ emitted' # emitted => received' # received
       /\ InOrder'
    ]_vars

\* two clients are connected, one has sent two messages and the other one,
\* and all three were emitted to both
C14_Witness ==
    /\ Len(emitted) = 3
    /\ Len(ReceivedFrom(1)) = 2
    /\ received[2].from = 2
    /\ \A i \in 1..3 : emitted[i].to = {1, 2}
    /\ emitted[1].msg.text # emitted[3].msg.text

----------------------------------------------------------------------------
(* CORS: the origin callback of configureCors *)

LocalPort == 8000

OtherPort == 3000

allowedOrigins ==
    {Origin("http", "localhost", LocalPort), Origin("https", "myfrontend.com", Undef)}

\* !origin: undefined and the empty string are falsy
NoOriginValue(origin) == ~origin.present \/ origin = EmptyOrigin

\* the callback that allows every origin
originCallback_AllowAll(origin) == [err |-> "null", allow |-> TRUE]

\* origin: (origin, callback) => ...: the arguments the callback is called
\* with, the error and whether the origin is allowed
originCallback(origin) ==
    IF NoOriginValue(origin) \/ origin \in allowedOrigins
    THEN [err |-> "null", allow |-> TRUE]
    ELSE [err |-> "Not Allowed By CORS", allow |-> FALSE]

Origins ==
    {NoOrigin, EmptyOrigin} \cup
    [present : {TRUE}, scheme : {"http", "https"},
     host : {"localhost", "127.0.0.1", "myfrontend.com", "evil.com",
             "myfrontend.com.evil.com"},
     port : {Undef, LocalPort, OtherPort},
     slash : BOOLEAN, upper : BOOLEAN]

\* app.use(configureCors()): every request goes through the origin callback
ConfigureCors ==
    \E origin \in Origins :
        /\ last' = [NoRequest EXCEPT !.op = "cors", !.origin = origin,
                        !.json = originCallback(origin),
                        !.trace = <<"cors">>]
        /\ UNCHANGED <<bookVars, imageVars, userVars, pending, otherVars>>

InitCors ==
    /\ EmptyBooks
    /\ EmptyImages
    /\ EmptyUsers
    /\ EmptyOthers
    /\ last = NoRequest

NextCors == ConfigureCors

SpecCors == InitCors /\ [][NextCors]_vars

\* C15: the origin callback allows a request exactly when it carries no
\* Origin value or its Origin is literally http://localhost:8000 or
\* https://myfrontend.com, and calls back with the error
\* 'Not Allowed By CORS' for every other origin
C15_Whitelist ==
    last.op = "cors" =>
        LET o == last.origin
            carriesNone == ~o.present \/ (o.scheme = "" /\ o.host = "")
            whitelisted ==
                /\ o.present /\ ~o.slash /\ ~o.upper
                /\ \/ o.scheme = "http" /\ o.host = "localhost" /\ o.port = 8000
                   \/ o.scheme = "https" /\ o.host = "myfrontend.com" /\ o.port = Undef
        IN  /\ last.json.allow <=> (carriesNone \/ whitelisted)
            /\ last.json.allow => last.json.err = "null"
            /\ ~last.json.allow => last.json.err = "Not Allowed By CORS"

\* a look-alike of a whitelisted origin was rejected
C15_Witness ==
    /\ last.op = "cors"
    /\ last.origin.host = "myfrontend.com"
    /\ last.origin.scheme = "http"
    /\ last.origin.port = Undef
    /\ ~last.origin.slash
    /\ ~last.origin.upper
    /\ ~last.json.allow
    /\ last.json.err = "Not Allowed By CORS"

----------------------------------------------------------------------------
(* Rate limiting: createBasicRateLimiter in front of a route handler *)

MaxLimit == 2

MaxWindow == 2

MaxClock == 4

MaxExcess == 2

\* the limiter that lets a request through only below the limit
WithinLimit_Below(totalHits, max) == totalHits < max

\* a request passes while the hits counted in its window do not exceed max
WithinLimit(totalHits, max) == totalHits <= max

\* the end of the window a request at time now opens
WindowEnd(now) ==
    IF limiter.store = "perKey" THEN now + limiter.windowMs
    ELSE (now \div limiter.windowMs + 1) * limiter.windowMs

\* store.increment(key): a key whose window is over starts a new one
Increment(ip) ==
    IF clock >= hits[ip].resetTime
    THEN [totalHits |-> 1, resetTime |-> WindowEnd(clock)]
    ELSE [hits[ip] EXCEPT !.totalHits = @ + 1]

\* app.post("/login", loginLimiter, handler): the limiter counts the request
\* and calls next(), or answers 429 with the message
LimitedRequest(ip) ==
    LET counted == Increment(ip)
        pass == WithinLimit(counted.totalHits, limiter.max)
        before == IF clock >= hits[ip].resetTime THEN 0 ELSE reached[ip]
    IN  /\ counted.totalHits <= limiter.max + MaxExcess
        /\ hits' = [hits EXCEPT ![ip] = counted]
        /\ reached' = [reached EXCEPT ![ip] = before + (IF pass THEN 1 ELSE 0)]
        /\ last' = [NoRequest EXCEPT
                !.op = "limited", !.id = ip,
                !.res = IF pass THEN <<200>> ELSE <<429>>,
                !.json = IF pass THEN NoJson ELSE limiter.message,
                !.trace = IF pass THEN <<"rateLimit", "handler">> ELSE <<"rateLimit">>,
                !.next = pass]
        /\ UNCHANGED <<limiter, clock>>

LimiterRequest ==
    \E ip \in Ips : LimitedRequest(ip)
        /\ UNCHANGED <<bookVars, imageVars, userVars, pending, chatVars, productVars>>

\* time passes
LimiterTick ==
    /\ clock < MaxClock
    /\ clock' = clock + 1
    /\ UNCHANGED <<limiter, hits, reached, last>>
    /\ UNCHANGED <<bookVars, imageVars, userVars, pending, chatVars, productVars>>

InitLimiter ==
    /\ EmptyBooks
    /\ EmptyImages
    /\ EmptyUsers
    /\ EmptyChat
    /\ ProductsAtStart
    /\ NoPending
    /\ \E maxRequests \in 1..MaxLimit, time \in 1..MaxWindow,
          store \in {"perKey", "shared"} :
            limiter = createBasicRateLimiter(maxRequests, time, store)
    /\ NoHits
    /\ last = NoRequest

NextLimiter == LimiterRequest \/ LimiterTick

SpecLimiter == InitLimiter /\ [][NextLimiter]_vars

\* C16: a request of an IP reaches the route handler exactly when fewer than
\* maxRequests requests of that IP reached it in the IP's current window (none
\* did once the window is over); otherwise it gets 429 with the configured
\* JSON body; so at most maxRequests requests per IP and window reach the
\* handler, and the request changes nothing that is counted for another IP
C16_RateLimit ==
    [][hits' # hits =>
        LET ip == last'.id
            before == IF clock >= hits[ip].resetTime THEN 0 ELSE reached[ip]
        IN  /\ last'.op = "limited"
            /\ (before < limiter.max) => (last'.res = <<200>> /\ Ran(last'.trace, "handler"))
            /\ ~(before < limiter.max) =>
                /\ last'.res = <<429>>
                /\ ~Ran(last'.trace, "handler")
                /\ last'.json = [success |-> FALSE,
                                 error |-> "Too many requests. Please try again later."]
            /\ reached'[ip] <= limiter.max
            /\ \A other \in Ips \ {ip} :
                hits'[other] = hits[other] /\ reached'[other] = reached[other]
    ]_vars

\* one IP made three requests in a window that is now over, of which two
\* reached the handler, and the other IP passes in a later window of its own
C16_Witness ==
    /\ limiter.max = 2
    /\ last.op = "limited"
    /\ last.id = 1
    /\ last.res = <<200>>
    /\ hits[2].totalHits = 3
    /\ reached[2] = 2
    /\ clock >= hits[2].resetTime
    /\ hits[1].resetTime > hits[2].resetTime

----------------------------------------------------------------------------
(* Error middleware: APIError, asyncHandler and globalErrorHandler *)

\* new APIError(message, statusCode)
APIError(message, statusCode) ==
    [class |-> "APIError", message |-> message, statusCode |-> statusCode]

\* any other error; some carry a statusCode of their own
OtherError(class, message, statusCode) ==
    [class |-> class, message |-> message, statusCode |-> statusCode]

StatusCodes == {400, 401, 403, 404, 409, 500}

Messages == {"No items found", "Item not found", "Something broke", ""}

Errors ==
    {APIError(m, sc) : m \in Messages, sc \in StatusCodes} \cup
    {OtherError(c, m, sc) : c \in {"Error", "TypeError", "HttpError"},
                            m \in Messages, sc \in {Undef, 404, 503}}

\* the ways a wrapped handler ends: it answers with res.json(data), throws
\* before its first await, or its promise rejects
Endings ==
    {NoError} \cup
    {[mode |-> mode, class |-> e.class, message |-> e.message,
      statusCode |-> e.statusCode] : mode \in {"throws", "rejects"}, e \in Errors}

\* the route handler: its response, if it gives one, and how it ends
ItemsHandler(c, ending) ==
    IF ending.mode = "returns"
    THEN [c EXCEPT !.res = Append(@, 200), !.trace = Append(@, "handler"),
                   !.error = ending, !.next = FALSE]
    ELSE [c EXCEPT !.trace = Append(@, "handler"), !.error = ending, !.next = FALSE]

\* globalErrorHandler(error, req, res, next)
globalErrorHandler(c, error) ==
    IF error.class = "APIError"
    THEN [c EXCEPT !.res = Append(@, error.statusCode),
                   !.json = [status |-> "Error", message |-> error.message],
                   !.trace = Append(@, "globalErrorHandler")]
    ELSE [c EXCEPT !.res = Append(@, 500),
                   !.json = [status |-> "Error", message |-> "Server Error"],
                   !.trace = Append(@, "globalErrorHandler")]

\* the wrapper without .catch(next): a rejection is handled by nobody
asyncHandler_NoCatch(c, ending) ==
    LET done == ItemsHandler(c, ending)
    IN  IF ending.mode = "throws" THEN globalErrorHandler(done, ending) ELSE done

\* asyncHandler(fn): Promise.resolve(fn(req, res, next)).catch(next) hands a
\* rejection to next; an exception of fn(...) itself leaves the wrapper and
\* Express hands it to next; next(error) runs the error middleware
\* registered last, app.use(globalErrorHandler)
asyncHandler(c, ending) ==
    LET done == ItemsHandler(c, ending)
    IN  IF ending.mode \in {"throws", "rejects"} THEN globalErrorHandler(done, ending)
        ELSE done

\* router.get("/items", asyncHandler(async (req, res) => ...))
GetItems ==
    \E ending \in Endings :
        /\ last' = asyncHandler([NoRequest EXCEPT !.op = "items"], ending)
        /\ UNCHANGED <<bookVars, imageVars, userVars, pending, otherVars>>

InitErrors ==
    /\ EmptyBooks
    /\ EmptyImages
    /\ EmptyUsers
    /\ EmptyOthers
    /\ last = NoRequest

NextErrors == GetItems

SpecErrors == InitErrors /\ [][NextErrors]_vars

\* C17: an error thrown or rejected in a handler wrapped by asyncHandler
\* reaches globalErrorHandler, and the request gets exactly one response: the
\* error's statusCode and message for an APIError, 500 and 'Server Error' for
\* any other error
C17_ErrorsHandled ==
    (last.op = "items" /\ last.error.mode # "returns") =>
        /\ Ran(last.trace, "globalErrorHandler")
        /\ Pos(last.trace, "handler") < Pos(last.trace, "globalErrorHandler")
        /\ Len(last.res) = 1
        /\ last.json.status = "Error"
        /\ IF last.error.class = "APIError"
           THEN last.res = <<last.error.statusCode>> /\ last.json.message = last.error.message
           ELSE last.res = <<500>> /\ last.json.message = "Server Error"

\* a rejection with an error that is no APIError but carries statusCode 404
\* was answered with 500 and 'Server Error'
C17_Witness ==
    /\ last.op = "items"
    /\ last.error.mode = "rejects"
    /\ last.error.class = "HttpError"
    /\ last.error.statusCode = 404
    /\ last.res = <<500>>
    /\ last.json.message = "Server Error"
    /\ Ran(last.trace, "globalErrorHandler")

----------------------------------------------------------------------------
(* TypeScript server: POST /users and GET /users *)

Names == {"undefined", "Ann", "Bob"}

Ages == {Undef, 30}

NewUserBodies == [name : Names, email : {"undefined", "ann@mail.com"}, age : Ages]

\* userSchema: name, email and age are required
userSchemaValid(body) ==
    body.name # "undefined" /\ body.email # "undefined" /\ body.age # Undef

\* newUser.save()
NewUser_save(body, dbOk) ==
    IF dbOk /\ userSchemaValid(body)
    THEN Returned([id |-> nextUserId, name |-> body.name, email |-> body.email,
                   age |-> body.age])
    ELSE Threw

\* User.find()
TsUser_find(dbOk) == IF dbOk THEN Returned(users) ELSE Threw

\* app.post("/users"): try { save; 201 } catch { 500 }
postUsers(body, dbOk) ==
    LET savedUser == NewUser_save(body, dbOk)
    IN  IF savedUser.threw
        THEN [res |-> <<500>>, trace |-> <<"postUsers">>, users |-> users]
        ELSE [res |-> <<201>>, trace |-> <<"postUsers">>,
              users |-> users \cup {savedUser.value}]

\* app.get("/users") has no try/catch: when User.find() rejects, the promise
\* of the handler rejects.  Express 4 ignores the promise and the request
\* stays unanswered; Express 5 hands the rejection to its final handler,
\* which answers 500
getUsers(dbOk, expressMajor) ==
    LET found == TsUser_find(dbOk)
    IN  IF ~found.threw THEN [res |-> <<200>>, trace |-> <<"getUsers">>]
        ELSE IF expressMajor = 4 THEN [res |-> <<>>, trace |-> <<"getUsers">>]
        ELSE [res |-> <<500>>, trace |-> <<"getUsers", "finalhandler">>]

PostUsers ==
    \E body \in NewUserBodies, dbOk \in BOOLEAN :
        LET r == postUsers(body, dbOk)
        IN  /\ Cardinality(users) < MaxUsers \/ r.users = users
            /\ users' = r.users
            /\ nextUserId' = IF r.users = users THEN nextUserId ELSE nextUserId + 1
            /\ last' = [NoRequest EXCEPT !.op = "postUsers", !.body = body,
                            !.json = IF r.users = users THEN NoJson
                                     ELSE CHOOSE u \in r.users \ users : TRUE,
                            !.fails = IF dbOk THEN "none" ELSE "save",
                            !.res = r.res, !.trace = r.trace]
            /\ UNCHANGED <<bookVars, imageVars, otherVars>>

GetUsers ==
    \E dbOk \in BOOLEAN, expressMajor \in {4, 5} :
        LET r == getUsers(dbOk, expressMajor)
        IN  /\ last' = [NoRequest EXCEPT !.op = "getUsers",
                            !.fails = IF dbOk THEN "none" ELSE "find",
                            !.res = r.res, !.trace = r.trace]
            /\ UNCHANGED <<bookVars, imageVars, userVars, pending, otherVars>>

InitServer ==
    /\ EmptyBooks
    /\ EmptyImages
    /\ EmptyUsers
    /\ EmptyOthers
    /\ last = NoRequest

NextServer == PostUsers \/ GetUsers

SpecServer == InitServer /\ [][NextServer]_vars

\* C18: a request of an asynchronous handler whose database call raised is
\* answered with 500 by the handler's own catch block, never left unanswered
C18_FailuresAnswered ==
    (last.op \in {"postUsers", "getUsers"} /\ last.fails # "none") =>
        /\ last.res = <<500>>
        /\ ~Ran(last.trace, "finalhandler")

----------------------------------------------------------------------------
(* C19: the asynchronous calls of one request *)

\* the calls a handler issues when none fails, in order
CallsOf(op) ==
    CASE op = "uploadImage" -> <<"upload", "save">>
      [] op = "deleteImage" -> <<"findById", "destroy", "findByIdAndDelete">>
      [] op = "fetchImages" -> <<"countDocuments", "find">>
      [] OTHER              -> <<>>

CalledOps == {"uploadImage", "deleteImage"}

----------------------------------------------------------------------------
(* GraphQL server: the schema and its resolvers over the products array *)

MaxProducts == 3

\* the fields of type Query and of type Mutation
Schema ==
    [Query |-> {"products", "product"},
     Mutation |-> {"createProduct", "deleteProduct", "updateProduct"}]

NoProduct == [id |-> Undef, title |-> "", category |-> "", price |-> Undef, inStock |-> FALSE]

\* what a resolver returned: a product, true, false or null
Returns(kind, product) == [returned |-> kind, product |-> product]

\* products.findIndex((p) => p.id === id): 0 stands for -1
findIndex(id) ==
    IF \E i \in 1..Len(products) : products[i].id = id
    THEN CHOOSE i \in 1..Len(products) :
            products[i].id = id /\ \A k \in 1..(i - 1) : products[k].id # id
    ELSE 0

\* products.splice(index, 1)
splice(index) ==
    SubSeq(products, 1, index - 1) \o SubSeq(products, index + 1, Len(products))

\* each resolver yields what it returns and the array it leaves

createProduct(args) ==
    LET newProduct == [id |-> Len(products) + 1, title |-> args.title,
                       category |-> args.category, price |-> args.price,
                       inStock |-> args.inStock]
    IN  [json |-> Returns("product", newProduct), products |-> Append(products, newProduct)]

\* deleteProduct answering true without removing anything
deleteProduct_KeepsAll(id) ==
    IF findIndex(id) = 0 THEN [json |-> Returns("false", NoProduct), products |-> products]
    ELSE [json |-> Returns("true", NoProduct), products |-> products]

deleteProduct(id) ==
    IF findIndex(id) = 0 THEN [json |-> Returns("false", NoProduct), products |-> products]
    ELSE [json |-> Returns("true", NoProduct), products |-> splice(findIndex(id))]

\* { ...products[index], ...updates }: the fields the call gave replace the old
Merge(old, updates) ==
    [old EXCEPT !.title = IF updates.title = "undefined" THEN @ ELSE updates.title,
                !.price = IF updates.price = Undef THEN @ ELSE updates.price]

updateProduct(id, updates) ==
    IF findIndex(id) = 0 THEN [json |-> Returns("null", NoProduct), products |-> products]
    ELSE LET updatedProduct == Merge(products[findIndex(id)], updates)
         IN  [json |-> Returns("product", updatedProduct),
              products |-> [products EXCEPT ![findIndex(id)] = updatedProduct]]

ProductIds == 1..(MaxProducts + 1)

NewProducts ==
    [title : {"Smart Lamp"}, category : {"Home"}, price : {1999}, inStock : BOOLEAN]

Updates == [title : {"undefined", "Smart Lamp"}, price : {Undef, 999}]

CreateProduct ==
    \E args \in NewProducts :
        LET r == createProduct(args)
        IN  /\ Len(products) < MaxProducts
            /\ products' = r.products
            /\ last' = [NoRequest EXCEPT !.op = "createProduct", !.json = r.json]
            /\ UNCHANGED <<bookVars, imageVars, userVars, pending, chatVars, limiterVars>>

DeleteProduct ==
    \E id \in ProductIds :
        LET r == deleteProduct(id)
        IN  /\ products' = r.products
            /\ last' = [NoRequest EXCEPT !.op = "deleteProduct", !.id = id,
                                         !.json = r.json]
            /\ UNCHANGED <<bookVars, imageVars, userVars, pending, chatVars, limiterVars>>

UpdateProduct ==
    \E id \in ProductIds, updates \in Updates :
        LET r == updateProduct(id, updates)
        IN  /\ products' = r.products
            /\ last' = [NoRequest EXCEPT !.op = "updateProduct", !.id = id,
                                         !.body = updates, !.json = r.json]
            /\ UNCHANGED <<bookVars, imageVars, userVars, pending, chatVars, limiterVars>>

InitProducts ==
    /\ EmptyBooks
    /\ EmptyImages
    /\ EmptyUsers
    /\ EmptyOthers
    /\ last = NoRequest

NextProducts == CreateProduct \/ DeleteProduct \/ UpdateProduct

SpecProducts == InitProducts /\ [][NextProducts]_vars

\* every change is made by a mutation of the schema, and what it changes is
\* the products array: createProduct appends one product, deleteProduct
\* removes at most one, updateProduct replaces at most one in place
MutationsOnProducts ==
    /\ last'.op \in Schema.Mutation
    /\ UNCHANGED <<bookVars, imageVars, userVars, pending, chatVars, limiterVars>>
    /\ last'.op = "createProduct" =>
        /\ Len(products') = Len(products) + 1
        /\ SubSeq(products', 1, Len(products)) = products
        /\ last'.json.product = products'[Len(products')]
    /\ last'.op = "deleteProduct" =>
        IF \E i \in 1..Len(products) : products[i].id = last'.id
        THEN /\ Len(products') = Len(products) - 1
             /\ last'.json.returned = "true"
             /\ \E i \in 1..Len(products) :
                    /\ products[i].id = last'.id
                    /\ \A k \in 1..Len(products') :
                        products'[k] = IF k < i THEN products[k] ELSE products[k + 1]
        ELSE products' = products /\ last'.json.returned = "false"
    /\ last'.op = "updateProduct" =>
        IF \E i \in 1..Len(products) : products[i].id = last'.id
        THEN /\ Len(products') = Len(products)
             /\ last'.json.returned = "product"
             /\ \E i \in 1..Len(products) :
                    /\ products[i].id = last'.id
                    /\ products'[i] = last'.json.product
                    /\ products'[i].id = products[i].id
                    /\ \A k \in 1..Len(products) : k # i => products'[k] = products[k]
        ELSE products' = products /\ last'.json.returned = "null"

\* C20 as stated: the schema exposes four mutations, each operating on the
\* in-memory products array
C20_FourMutations ==
    [][Cardinality(Schema.Mutation) = 4 /\ MutationsOnProducts]_vars

\* C20 amended: the schema exposes three mutations, createProduct,
\* deleteProduct and updateProduct, each operating on the in-memory products
\* array
C20_ThreeMutations ==
    [][/\ Cardinality(Schema.Mutation) = 3
       /\ Schema.Mutation = {"createProduct", "deleteProduct", "updateProduct"}
       /\ MutationsOnProducts]_vars

\* a product was created, another deleted and a third updated
C20_Witness ==
    /\ last.op = "updateProduct"
    /\ last.json.returned = "product"
    /\ last.json.product.price = 999
    /\ Len(products) = 2
    /\ products[1].id = 2
    /\ products[2].title = "Smart Lamp"

----------------------------------------------------------------------------
(* C21, C22: the Book collection under the book controllers *)

\* C21: every stored book has a title of at most 100 characters, an author
\* and a year between 1000 and the current year
C21_StoredBooksValid ==
    \A b \in books :
        /\ b.title # Undef /\ b.title <= 100
        /\ b.author # Undef
        /\ b.year # Undef /\ b.year >= 1000 /\ b.year <= CurrentYear

ByIdOps == {"getSingleBookById", "updateSingleBook", "deleteSingleBook"}

\* C22 as stated: getSingleBookById, updateSingleBook and deleteSingleBook
\* called with an id that no stored book has answer 404 with success false
\* and leave the collection unchanged
C22_MissingIs404 ==
    [][(last'.op \in ByIdOps /\ \A b \in books : b.id # last'.id) =>
        /\ last'.res = <<404>>
        /\ ~last'.json.success
        /\ books' = books
    ]_vars

\* C22 amended: called with an id that no stored book has, the three
\* controllers answer with success false and leave the collection unchanged;
\* the status is 404 for a well-formed id when the database call returns, and
\* 500 when the call throws (a malformed id, a driver error)
C22_MissingIs404Amended ==
    [][(last'.op \in ByIdOps /\ \A b \in books : b.id # last'.id) =>
        /\ last'.res = IF last'.id = MalformedId \/ last'.fails # "none"
                       THEN <<500>> ELSE <<404>>
        /\ ~last'.json.success
        /\ books' = books
    ]_vars

\* a delete of an id that no book has, while another book is stored, got 404
C22_Witness ==
    /\ last.op = "deleteSingleBook"
    /\ last.res = <<404>>
    /\ ~last.json.success
    /\ last.id = 2
    /\ books # {}
    /\ \A b \in books : b.id = 1

----------------------------------------------------------------------------
(* C23: product ids *)

\* C23: no two products of the array have the same id
C23_UniqueIds ==
    \A i, k \in 1..Len(products) : i # k => products[i].id # products[k].id

(* C24: registerUser requests in progress at the same time.  Each request  *)
(* runs registerUser up to its next await and resumes when the awaited     *)
(* call settles; between two awaits of one request the awaits of the       *)
(* others may settle.  User.findOne reads the collection when it settles   *)
(* and save writes it when it settles.  bcrypt.genSalt and bcrypt.hash     *)
(* touch nothing shared and settle in one step.                            *)

\* res.status(...).json(...): the request is answered and is over
RegisterAnswers(r, res, fails) ==
    /\ last' = [NoRequest EXCEPT !.op = "registerUser", !.id = r,
                                 !.body = pending[r].body, !.fails = fails,
                                 !.res = res, !.trace = <<"registerUser">>]
    /\ pending' = [pending EXCEPT ![r] = [Idle EXCEPT !.pc = "done"]]

\* the request arrives: req.body is read and User.findOne is awaited
RegisterArrives(r) ==
    \E username \in Usernames, email \in Emails, password \in {1, Undef} :
        /\ pending[r].pc = "idle"
        /\ pending' = [pending EXCEPT ![r] =
                          [Idle EXCEPT !.pc = "findOne",
                                       !.body = [NoBody EXCEPT !.username = username,
                                                               !.email = email,
                                                               !.password = password,
                                                               !.role = "undefined"]]]
        /\ UNCHANGED <<userVars, last>>
        /\ UNCHANGED <<bookVars, imageVars, chatVars, limiterVars, productVars>>

\* User.findOne settles: 400 when a user was found, else bcrypt is awaited
FindOneSettles(r) ==
    \E dbOk \in BOOLEAN :
        LET body == pending[r].body
            checkExistingUser == User_findOne(body.username, body.email, dbOk)
        IN  /\ pending[r].pc = "findOne"
            /\ IF checkExistingUser.threw THEN RegisterAnswers(r, <<500>>, "findOne")
               ELSE IF checkExistingUser.value # {} THEN RegisterAnswers(r, <<400>>, "none")
               ELSE /\ pending' = [pending EXCEPT ![r].pc = "hash"]
                    /\ UNCHANGED last
            /\ UNCHANGED userVars
            /\ UNCHANGED <<bookVars, imageVars, chatVars, limiterVars, productVars>>

\* bcrypt.genSalt and bcrypt.hash settle: new User(...) and save is awaited
HashSettles(r) ==
    \E salt \in Salts :
        LET hashedPassword == bcrypt_hash(pending[r].body.password, salt) IN
        /\ pending[r].pc = "hash"
        /\ IF hashedPassword.threw THEN RegisterAnswers(r, <<500>>, "hash")
           ELSE /\ pending' = [pending EXCEPT ![r].pc = "save",
                                              ![r].hashedPassword = hashedPassword.value]
                /\ UNCHANGED last
        /\ UNCHANGED userVars
        /\ UNCHANGED <<bookVars, imageVars, chatVars, limiterVars, productVars>>

\* newlyCreatedUser.save() settles: the document is stored and 201 is sent
SaveSettles(r) ==
    \E dbOk \in BOOLEAN :
        LET body == pending[r].body
            newlyCreatedUser == [id |-> nextUserId, username |-> body.username,
                                 email |-> body.email,
                                 password |-> pending[r].hashedPassword,
                                 role |-> RoleOrUser(body.role)]
        IN  /\ pending[r].pc = "save"
            /\ IF User_save(newlyCreatedUser, dbOk).threw
               THEN /\ RegisterAnswers(r, <<500>>, "save")
                    /\ UNCHANGED userVars
               ELSE /\ RegisterAnswers(r, <<201>>, "none")
                    /\ users' = users \cup {newlyCreatedUser}
                    /\ nextUserId' = nextUserId + 1
            /\ UNCHANGED <<bookVars, imageVars, chatVars, limiterVars, productVars>>

NextRace ==
    \E r \in RegisterRequests :
        \/ RegisterArrives(r)
        \/ FindOneSettles(r)
        \/ HashSettles(r)
        \/ SaveSettles(r)

SpecRace == InitUser /\ [][NextRace]_vars

\* C24: under any interleaving of concurrent registerUser requests, no two
\* stored users share a username or an email
C24_NoSharedIdentity ==
    \A u, v \in users :
        u.id # v.id => u.username # v.username /\ u.email # v.email

(* C25: the API versioning middlewares.  A string is the sequence of its   *)
(* characters, so that startsWith and includes compare what the code       *)
(* compares.                                                               *)

\* String.prototype.startsWith
startsWith(str, searchString) ==
    /\ Len(searchString) <= Len(str)
    /\ SubSeq(str, 1, Len(searchString)) = searchString

\* String.prototype.includes
includes(str, searchString) ==
    \E i \in 1..(Len(str) + 1) :
        /\ i + Len(searchString) - 1 <= Len(str)
        /\ SubSeq(str, i, i + Len(searchString) - 1) = searchString

\* "/api/"
ApiPrefix == <<"/", "a", "p", "i", "/">>

\* "application/vnd.api."
VndPrefix ==
    <<"a", "p", "p", "l", "i", "c", "a", "t", "i", "o", "n", "/",
      "v", "n", "d", ".", "a", "p", "i", ".">>

\* "+json"
JsonSuffix == <<"+", "j", "s", "o", "n">>

\* "v1", "v2" and "v10"
Versions == {<<"v", "1">>, <<"v", "2">>, <<"v", "1", "0">>}

\* res.status(404).json({ error: "API version not found" })
VersionNotFound ==
    [next |-> FALSE, res |-> <<404>>, json |-> [error |-> "API version not found"]]

\* next()
VersionAllowed == [next |-> TRUE, res |-> <<>>, json |-> NoJson]

\* urlVersioning(version)(req, res, next)
urlVersioning(version, path) ==
    IF startsWith(path, ApiPrefix \o version) THEN VersionAllowed
    ELSE VersionNotFound

\* headerVersioning(version)(req, res, next); req.get of a header the
\* request lacks is undefined
headerVersioning(version, accept) ==
    IF accept.present /\ accept.parts = version THEN VersionAllowed
    ELSE VersionNotFound

\* contentTypeVersioning(version)(req, res, next)
contentTypeVersioning(version, contentType) ==
    IF includes(contentType, VndPrefix \o version \o JsonSuffix) THEN VersionAllowed
    ELSE VersionNotFound

\* the paths of requests: /api/v1, /api/v1/, /api/v1/p, /v1/p, /web/v1/p, ...
Paths ==
    {prefix \o version \o rest :
        prefix \in {ApiPrefix, <<"/">>, <<"/", "w", "e", "b", "/">>},
        version \in Versions,
        rest \in {<<>>, <<"/">>, <<"/", "p">>}}

\* the Accept-Version headers of requests: none, a version, or "1"
AcceptVersions ==
    {NoHeader, [present |-> TRUE, parts |-> <<"1">>]}
        \cup {[present |-> TRUE, parts |-> version] : version \in Versions}

\* the Content-Type headers of requests: application/json or a vendor type,
\* alone or followed by "; q"
ContentTypes ==
    {type \o params :
        type \in {<<"a", "p", "p", "l", "i", "c", "a", "t", "i", "o", "n", "/",
                    "j", "s", "o", "n">>}
                     \cup {VndPrefix \o version \o JsonSuffix : version \in Versions},
        params \in {<<>>, <<";", " ", "q">>}}

VersionedRequest(op, version, path, accept, contentType, r) ==
    /\ last' = [NoRequest EXCEPT !.op = op, !.version = version, !.path = path,
                                 !.accept = accept, !.contentType = contentType,
                                 !.res = r.res, !.next = r.next, !.json = r.json,
                                 !.trace = IF r.next THEN <<op, "handler">>
                                           ELSE <<op>>]
    /\ UNCHANGED <<bookVars, imageVars, userVars, otherVars>>

\* a request to an app with app.use(urlVersioning(version))
UrlVersioning ==
    \E version \in Versions, path \in Paths :
        VersionedRequest("urlVersioning", version, path, NoHeader, <<>>,
                         urlVersioning(version, path))

\* a request to an app with app.use(headerVersioning(version))
HeaderVersioning ==
    \E version \in Versions, accept \in AcceptVersions :
        VersionedRequest("headerVersioning", version, <<>>, accept, <<>>,
                         headerVersioning(version, accept))

\* a request to an app with app.use(contentTypeVersioning(version)); the
\* requests carry a Content-Type
ContentTypeVersioning ==
    \E version \in Versions, contentType \in ContentTypes :
        VersionedRequest("contentTypeVersioning", version, <<>>, NoHeader, contentType,
                         contentTypeVersioning(version, contentType))

InitVersioning ==
    /\ EmptyBooks
    /\ EmptyImages
    /\ EmptyUsers
    /\ EmptyOthers
    /\ last = NoRequest

NextVersioning ==
    \/ UrlVersioning
    \/ HeaderVersioning
    \/ ContentTypeVersioning

SpecVersioning == InitVersioning /\ [][NextVersioning]_vars

\* the path is /api/<version> or lies below it
UnderApi(path, version) ==
    \/ path = ApiPrefix \o version
    \/ startsWith(path, ApiPrefix \o version \o <<"/">>)

\* the request handled last targets the version its middleware was configured with
TargetsVersion ==
    CASE last.op = "urlVersioning" -> UnderApi(last.path, last.version)
      [] last.op = "headerVersioning" ->
            last.accept.present /\ last.accept.parts = last.version
      [] last.op = "contentTypeVersioning" ->
            includes(last.contentType, VndPrefix \o last.version \o JsonSuffix)
      [] OTHER -> FALSE

VersioningOps == {"urlVersioning", "headerVersioning", "contentTypeVersioning"}

\* C25: a versioning middleware lets a request through exactly when it
\* targets the configured version and answers 404 with
\* {error: "API version not found"} otherwise; a request for another version
\* never reaches the handler
C25_VersionGate ==
    last.op \in VersioningOps =>
        IF TargetsVersion
        THEN last.next /\ last.res = <<>> /\ last.trace = <<last.op, "handler">>
        ELSE /\ ~last.next
             /\ last.res = <<404>>
             /\ last.json = [error |-> "API version not found"]
             /\ last.trace = <<last.op>>

====
